---------------------------- MODULE Spec2Model ----------------------------
(***************************************************************************)
(* Skill statistics engine of the volleyball dashboard (player.py,         *)
(* config.py, utils.py, filters.py, team.py, skill.py).                    *)
(*                                                                         *)
(* Numbers.  Every number a statistics record holds (a count, a            *)
(* percentage rounded to one decimal) is kept as a fixed-point integer in  *)
(* tenths: the count 3 is 30, the percentage 33.3 is 333.  Python's        *)
(* round(x, 1) is then "nearest integer number of tenths".                 *)
(*                                                                         *)
(* Keys.  A key of a statistics record is <<n, name>>: the string name     *)
(* preceded by n copies of the prefix "% ".  "Total" is <<0, "Total">>,    *)
(* "% Faute" is <<1, "Faute">>; f"% {k}" is Pct(k); k.startswith("% ") is  *)
(* k[1] >= 1.  Accented letters of the source strings are written without  *)
(* the accent ("Efficacite" for "Efficacité").                             *)
(*                                                                         *)
(* Tables.  A DataFrame is a sequence of rows in table order; the field    *)
(* idx of a row is its index label.                                        *)
(***************************************************************************)
EXTENDS Integers, Sequences, FiniteSets, TLC

VARIABLES all_plays, players, call, ret, session_state

vars == <<all_plays, players, call, ret, session_state>>

-----------------------------------------------------------------------------
(* Bounds of the model *)

MaxRows == 3

-----------------------------------------------------------------------------
(* Generic helpers: dictionaries, sums, rounding *)

None == [kind |-> "None"]

IsNone(x) == x.kind = "None"

K(name) == <<0, name>>

Pct(k) == <<k[1] + 1, k[2]>>

StartsWithPct(k) == k[1] >= 1

Num(n) == 10 * n

\* d.get(k, 0)
Get(d, k) == IF k \in DOMAIN d THEN d[k] ELSE 0

Put(d, k, v) == [x \in (DOMAIN d) \cup {k} |-> IF x = k THEN v ELSE d[x]]

Update(d, e) == [x \in (DOMAIN d) \cup (DOMAIN e) |-> IF x \in DOMAIN e THEN e[x] ELSE d[x]]

EmptyDict == [x \in {} |-> 0]

RECURSIVE SumSeq(_)
SumSeq(s) == IF s = <<>> THEN 0 ELSE Head(s) + SumSeq(Tail(s))

Abs(x) == IF x < 0 THEN -x ELSE x

\* a list whose elements are computed once, when it is built
List(s) == SubSeq(s, 1, Len(s))

\* round(a / b, 0) for a >= 0, b > 0: nearest integer, an exact tie to the even one
RoundDivNat(a, b) ==
    LET q == a \div b
        r == a % b
    IN  IF 2 * r < b THEN q
        ELSE IF 2 * r > b THEN q + 1
        ELSE IF q % 2 = 0 THEN q ELSE q + 1

\* round((num / den) * 100, 1), in tenths; num and den in the same unit, den > 0
Round1(num, den) ==
    IF num >= 0 THEN RoundDivNat(1000 * num, den)
    ELSE -RoundDivNat(1000 * (-num), den)

-----------------------------------------------------------------------------
(* config.py, constants.py *)

SET_MOMENTS == <<"Tout", "0-10", "10-20", "20+">>

\* an ordered dict is the sequence of its <<symbol, label>> items
SKILL_EVAL_MAPPINGS ==
    [ Reception |-> << <<"#", "Parfaite">>, <<"+", "Positif">>, <<"!", "Exclamative">>,
                       <<"-", "Negatif">>, <<"/", "Retour direct">>, <<"=", "Ace recu">> >>,
      Block     |-> << <<"#", "Kill bloc">>, <<"+", "Positif">>, <<"!", "Soutenu">>,
                       <<"-", "Negatif">>, <<"/", "Faute de filet">>, <<"=", "Block out">> >>,
      Serve     |-> << <<"#", "Ace">>, <<"/", "Bon">>, <<"+", "Positif">>,
                       <<"!", "Exclamative">>, <<"-", "Negatif">>, <<"=", "Faute">> >>,
      Attack    |-> << <<"#", "Point">>, <<"+", "Positif">>, <<"!", "Soutenu">>,
                       <<"-", "Negatif">>, <<"/", "Contre">>, <<"=", "Faute">> >>,
      Dig       |-> << <<"#", "Parfaite">>, <<"+", "Bonne">>, <<"!", "Soutien de bloc">>,
                       <<"-", "Mauvaise">>, <<"/", "Renvoi direct">>, <<"=", "Non defendu">> >>,
      Set       |-> << <<"#", "Parfaite">>, <<"+", "Bonne">>, <<"!", "Ok">>,
                       <<"-", "Mauvaise">>, <<"/", "Nulle">>, <<"=", "Faute">> >> ]

EFFICIENCY_CALCULATION ==
    [ Attack    |-> "positive_first - negative_last_two",
      Serve     |-> "positive_first_two - negative_last",
      Reception |-> "positive_first_two - negative_last_two",
      Block     |-> "positive_first - negative_last_two",
      Dig       |-> "positive_first_two - negative_last_two",
      Set       |-> "positive_first_two - negative_last" ]

ERROR_CALCULATION ==
    [ Attack    |-> "negative_last_two",
      Serve     |-> "negative_last",
      Reception |-> "negative_last_two",
      Block     |-> "negative_last_two",
      Dig       |-> "negative_last_two",
      Set       |-> "negative_last" ]

\* a formula "a + b + c" is the sequence of its parts; the part symbols_specific['x']
\* is <<"symbols_specific", "x">>, the part symbols_first is <<"symbols_first">>,
\* and the empty formula "" is the empty sequence
Sym(sym) == <<"symbols_specific", sym>>

P(name) == <<1, name>>

SPECIAL_METRICS ==
    [ Attack    |-> << <<P("Kill"), << <<"symbols_first">> >> >>,
                       <<P("/"),    << Sym("/") >> >> >>,
      Serve     |-> << <<P("Ace"),       << <<"symbols_first">> >> >>,
                       <<P("Positif"),   << Sym("#"), Sym("+"), Sym("/") >> >>,
                       <<P("Frequence"), << Sym("#"), Sym("+"), Sym("/"), Sym("!"), Sym("-") >> >> >>,
      Reception |-> << <<P("Parfaite"), << <<"symbols_first">> >> >> >>,
      Block     |-> << <<P("Kill"),     << <<"symbols_first">> >> >> >>,
      Dig       |-> << <<P("Parfaite"), << <<"symbols_first">> >> >> >>,
      Set       |-> << <<P("Jouable"), << Sym("#"), Sym("+"), Sym("/"), Sym("!"), Sym("-") >> >>,
                       <<P("Faute"),   << Sym("=") >> >>,
                       <<P("FSO"),     << >> >>,
                       <<P("SO"),      << >> >> >> ]

-----------------------------------------------------------------------------
(* player.py: Player.get_action_df *)

InSeq(x, s) == \E i \in 1..Len(s) : s[i] = x

\* a filter argument is None, [kind |-> "list", items |-> <<...>>] or
\* [kind |-> "scalar", item |-> v]; an empty list is falsy, every scalar used is truthy
Truthy(f) == CASE f.kind = "None" -> FALSE
               [] f.kind = "list" -> f.items # <<>>
               [] OTHER -> TRUE

\* the moment test with both scores asked to lie in the bucket
MomentTest_both(set_moment, r) ==
    IF set_moment # "Tout" /\ InSeq(set_moment, SET_MOMENTS)
    THEN CASE set_moment = "0-10"  -> (r.home_team_score <= 10) /\ (r.visiting_team_score <= 10)
           [] set_moment = "10-20" -> (r.home_team_score > 10 /\ r.home_team_score < 20)
                                      /\ (r.visiting_team_score > 10 /\ r.visiting_team_score < 20)
           [] set_moment = "20+"   -> (r.home_team_score >= 20) /\ (r.visiting_team_score >= 20)
           [] OTHER -> TRUE
    ELSE TRUE

\* the moment test with the bucket '0-10' stopping below 10
MomentTest_below10(set_moment, r) ==
    IF set_moment # "Tout" /\ InSeq(set_moment, SET_MOMENTS)
    THEN CASE set_moment = "0-10"  -> (r.home_team_score < 10) \/ (r.visiting_team_score < 10)
           [] set_moment = "10-20" -> (r.home_team_score > 10 /\ r.home_team_score < 20)
                                      \/ (r.visiting_team_score > 10 /\ r.visiting_team_score < 20)
           [] set_moment = "20+"   -> (r.home_team_score >= 20) \/ (r.visiting_team_score >= 20)
           [] OTHER -> TRUE
    ELSE TRUE

\* the moment test keeping no action when the name is no bucket of SET_MOMENTS
MomentTest_unknown_rejects(set_moment, r) ==
    IF set_moment # "Tout"
    THEN CASE set_moment = "0-10"  -> (r.home_team_score <= 10) \/ (r.visiting_team_score <= 10)
           [] set_moment = "10-20" -> (r.home_team_score > 10 /\ r.home_team_score < 20)
                                      \/ (r.visiting_team_score > 10 /\ r.visiting_team_score < 20)
           [] set_moment = "20+"   -> (r.home_team_score >= 20) \/ (r.visiting_team_score >= 20)
           [] OTHER -> FALSE
    ELSE TRUE

MomentTest(set_moment, r) ==
    IF set_moment # "Tout" /\ InSeq(set_moment, SET_MOMENTS)
    THEN CASE set_moment = "0-10"  -> (r.home_team_score <= 10) \/ (r.visiting_team_score <= 10)
           [] set_moment = "10-20" -> (r.home_team_score > 10 /\ r.home_team_score < 20)
                                      \/ (r.visiting_team_score > 10 /\ r.visiting_team_score < 20)
           [] set_moment = "20+"   -> (r.home_team_score >= 20) \/ (r.visiting_team_score >= 20)
           [] OTHER -> TRUE
    ELSE TRUE

MatchTest(match_filter, r) ==
    IF Truthy(match_filter)
    THEN IF match_filter.kind = "list" THEN InSeq(r.match_id, match_filter.items)
         ELSE r.match_id = match_filter.item
    ELSE TRUE

SetTest(set_filter, r) ==
    IF ~IsNone(set_filter)
    THEN IF set_filter.kind = "list" THEN InSeq(r.set_number, set_filter.items)
         ELSE r.set_number = set_filter.item
    ELSE TRUE

get_action_df(self, skill, set_moment, match_filter, set_filter) ==
    LET df1 == SelectSeq(self.df, LAMBDA r : r.skill = skill)
        df2 == SelectSeq(df1, LAMBDA r : MatchTest(match_filter, r))
        df3 == SelectSeq(df2, LAMBDA r : MomentTest(set_moment, r))
    IN  SelectSeq(df3, LAMBDA r : SetTest(set_filter, r))

-----------------------------------------------------------------------------
(* player.py: Player.compute_skill_stats and its helper functions *)

Ok(v) == [kind |-> "ok", val |-> v]

Raise(e) == [kind |-> "raise", exc |-> e]

CountCode(df, symbol) == Len(SelectSeq(df, LAMBDA r : r.evaluation_code = symbol))

Symbols(eval_mapping) == [i \in 1..Len(eval_mapping) |-> eval_mapping[i][1]]

FirstTwo(symbols) == SubSeq(symbols, 1, IF Len(symbols) < 2 THEN Len(symbols) ELSE 2)

LastTwo(symbols) == SubSeq(symbols, IF Len(symbols) < 2 THEN 1 ELSE Len(symbols) - 1, Len(symbols))

symbols_data(df, symbols) ==
    [ symbols_first     |-> IF symbols # <<>> THEN CountCode(df, symbols[1]) ELSE 0,
      symbols_first_two |-> IF Len(symbols) >= 2
                            THEN SumSeq([i \in 1..2 |-> CountCode(df, FirstTwo(symbols)[i])])
                            ELSE 0,
      symbols_last      |-> IF symbols # <<>> THEN CountCode(df, symbols[Len(symbols)]) ELSE 0,
      symbols_last_two  |-> IF Len(symbols) >= 2
                            THEN SumSeq([i \in 1..2 |-> CountCode(df, LastTwo(symbols)[i])])
                            ELSE 0,
      symbols_specific  |-> [x \in {symbols[i] : i \in 1..Len(symbols)} |-> CountCode(df, x)] ]

calculate_efficiency_numerator(sd, formula) ==
    CASE formula = "positive_first - negative_last_two"     -> sd.symbols_first - sd.symbols_last_two
      [] formula = "positive_first_two - negative_last_two" -> sd.symbols_first_two - sd.symbols_last_two
      [] formula = "positive_first - negative_last"         -> sd.symbols_first - sd.symbols_last
      [] formula = "positive_first_two - negative_last"     -> sd.symbols_first_two - sd.symbols_last
      [] OTHER -> 0

\* the error count with the last symbol counted twice
calculate_error_count_twice(sd, error_method) ==
    CASE error_method = "negative_last"     -> sd.symbols_last
      [] error_method = "negative_last_two" -> sd.symbols_last + sd.symbols_last_two
      [] OTHER -> 0

\* the error count taking the last two symbols whatever the method
calculate_error_count_last_two(sd, error_method) ==
    CASE error_method = "negative_last"     -> sd.symbols_last_two
      [] error_method = "negative_last_two" -> sd.symbols_last_two
      [] OTHER -> 0

calculate_error_count(sd, error_method) ==
    CASE error_method = "negative_last"     -> sd.symbols_last
      [] error_method = "negative_last_two" -> sd.symbols_last_two
      [] OTHER -> 0

\* eval of one part of a formula; symbols_specific['x'] raises KeyError when x is
\* no symbol of the mapping
PartRaises(part, sd) == part[1] = "symbols_specific" /\ part[2] \notin DOMAIN sd.symbols_specific

PartValue(part, sd) ==
    IF part[1] = "symbols_specific" THEN sd.symbols_specific[part[2]] ELSE sd.symbols_first

\* the evaluation taking a symbol absent from the mapping as counted 0 times
evaluate_metric_formula_lenient(formula, sd) ==
    Ok(SumSeq([i \in 1..Len(formula) |->
                 IF PartRaises(formula[i], sd) THEN 0 ELSE PartValue(formula[i], sd)]))

evaluate_metric_formula(formula, sd) ==
    IF \E i \in 1..Len(formula) : PartRaises(formula[i], sd)
    THEN Raise("KeyError")
    ELSE Ok(SumSeq([i \in 1..Len(formula) |-> PartValue(formula[i], sd)]))

LabelsOf(eval_mapping) == {eval_mapping[i][2] : i \in 1..Len(eval_mapping)}

\* the loop over the mapping stopping one item short
LabelCount_skip_last(df, eval_mapping, label) ==
    SumSeq([i \in 1..(Len(eval_mapping) - 1) |->
              IF eval_mapping[i][2] = label THEN CountCode(df, eval_mapping[i][1]) ELSE 0])

\* label_counts[label]: the counts of the symbols mapped to the label, accumulated
LabelCount(df, eval_mapping, label) ==
    SumSeq([i \in 1..Len(eval_mapping) |->
              IF eval_mapping[i][2] = label THEN CountCode(df, eval_mapping[i][1]) ELSE 0])

EmptyStatsKeys ==
    {K("Total"), P("Efficacite"), P("Kill"), P("Erreur"), P("Parfaite"),
     P("Ace"), P("Positif"), P("/"), P("Faute"), P("Jouable")}

\* the loop over SPECIAL_METRICS[skill].items(), from item i on
RECURSIVE SpecialMetrics(_, _, _, _, _)
SpecialMetrics(stats, metrics, i, sd, total) ==
    IF i > Len(metrics) THEN stats
    ELSE LET metric_name    == metrics[i][1]
             metric_formula == metrics[i][2]
             result         == evaluate_metric_formula(metric_formula, sd)
             value          == IF metric_formula = <<>> THEN 0
                               ELSE IF result.kind = "raise" THEN 0
                               ELSE Round1(result.val, total)
         IN  SpecialMetrics(Put(stats, metric_name, value), metrics, i + 1, sd, total)

\* compute_skill_stats past its early return (total > 0), up to the loop over
\* the special metrics
BaseStats(df, eval_mapping) ==
       LET total   == Len(df)
           skill   == df[1].skill
           symbols == Symbols(eval_mapping)
           sd      == symbols_data(df, symbols)
           stats1  == [k \in {K("Total")} |-> Num(total)]
           counts  == [k \in {K(l) : l \in LabelsOf(eval_mapping)} |->
                          Num(LabelCount(df, eval_mapping, k[2]))]
           stats2  == Update(stats1, counts)
           pcts    == [k \in {Pct(K(l)) : l \in LabelsOf(eval_mapping)} |->
                          Round1(LabelCount(df, eval_mapping, k[2]), total)]
           stats3  == Update(stats2, pcts)
           stats4  == Put(stats3, P("Efficacite"),
                          IF skill \in DOMAIN EFFICIENCY_CALCULATION
                          THEN Round1(calculate_efficiency_numerator(sd, EFFICIENCY_CALCULATION[skill]), total)
                          ELSE 0)
           erreur  == IF skill \in DOMAIN ERROR_CALCULATION
                      THEN Round1(calculate_error_count(sd, ERROR_CALCULATION[skill]), total)
                      ELSE 0
           stats5  == Put(stats4, P("Erreur"), erreur)
           stats6  == IF skill \in DOMAIN ERROR_CALCULATION /\ skill = "Set"
                      THEN Put(stats5, P("Faute"), stats5[P("Erreur")])
                      ELSE stats5
       IN  stats6

\* compute_skill_stats past its early return: total > 0
NonEmptyStats(df, eval_mapping) ==
    IF df[1].skill \in DOMAIN SPECIAL_METRICS
    THEN SpecialMetrics(BaseStats(df, eval_mapping), SPECIAL_METRICS[df[1].skill], 1,
                        symbols_data(df, Symbols(eval_mapping)), Len(df))
    ELSE BaseStats(df, eval_mapping)

\* the empty case answered like the empty case of the efficiency ratio's neighbour: 100
compute_skill_stats_empty100(df, eval_mapping) ==
    IF Len(df) = 0 THEN [k \in EmptyStatsKeys |-> IF k = P("Efficacite") THEN Num(100) ELSE 0]
    ELSE NonEmptyStats(df, eval_mapping)

compute_skill_stats(df, eval_mapping) ==
    IF Len(df) = 0 THEN [k \in EmptyStatsKeys |-> 0]
    ELSE NonEmptyStats(df, eval_mapping)

-----------------------------------------------------------------------------
(* player.py: adjacency lookups, FSO and SO *)

\* an adjacency table is None or [kind |-> "table", rows |-> <<...>>]
InIndex(idx, table) == \E i \in 1..Len(table.rows) : table.rows[i].idx = idx

Loc(table, idx) == table.rows[CHOOSE i \in 1..Len(table.rows) : table.rows[i].idx = idx]

filter_set_df(self, set_moment, match_filter, set_filter, set_type) ==
    LET set_df == get_action_df(self, "Set", set_moment, match_filter, set_filter)
    IN  IF set_type # "Tous" THEN SelectSeq(set_df, LAMBDA r : r.set_code = set_type) ELSE set_df

\* the test accepting an Attack of any attack_code
is_valid_attack_any_code(action, attack_type) ==
    action.skill = "Attack"

is_valid_attack(action, attack_type) ==
    action.skill = "Attack" /\ action.attack_code = attack_type

\* result_data of calculate_set_fso: one entry per pass kept by the loop
FsoResultData(self, set_df, attack_type) ==
    LET kept == SelectSeq(set_df, LAMBDA r :
                    /\ InIndex(r.idx, self.df_prev)
                    /\ InIndex(r.idx, self.df_next)
                    /\ ~(attack_type # "Tous" /\ ~is_valid_attack(Loc(self.df_next, r.idx), attack_type)))
    IN  [i \in 1..Len(kept) |->
            [ prev_skill      |-> Loc(self.df_prev, kept[i].idx).skill,
              next_skill      |-> Loc(self.df_next, kept[i].idx).skill,
              next_evaluation |-> Loc(self.df_next, kept[i].idx).evaluation_code ]]

FsoRecord(total, successful, pct) ==
    [total_fso_situations |-> total, successful_fso |-> successful, pct_FSO |-> pct]

\* calculate_set_fso without the test on the previous action's skill
calculate_set_fso_any_prev(self, set_moment, match_filter, set_filter, set_type, attack_type) ==
    LET set_df == filter_set_df(self, set_moment, match_filter, set_filter, set_type)
    IN  IF set_df = <<>> \/ IsNone(self.df_prev) \/ IsNone(self.df_next)
        THEN FsoRecord(0, 0, 0)
        ELSE
        LET fso_situations == SelectSeq(FsoResultData(self, set_df, attack_type),
                                        LAMBDA d : d.next_skill = "Attack")
            total_fso_situations == Len(fso_situations)
            successful_fso == Len(SelectSeq(fso_situations, LAMBDA d : d.next_evaluation = "#"))
        IN  IF total_fso_situations = 0
            THEN FsoRecord(0, 0, 0)
            ELSE FsoRecord(total_fso_situations, successful_fso,
                           Round1(successful_fso, total_fso_situations))

calculate_set_fso(self, set_moment, match_filter, set_filter, set_type, attack_type) ==
    LET set_df == filter_set_df(self, set_moment, match_filter, set_filter, set_type)
    IN  IF set_df = <<>> \/ IsNone(self.df_prev) \/ IsNone(self.df_next)
        THEN FsoRecord(0, 0, 0)
        ELSE
        LET result_data    == FsoResultData(self, set_df, attack_type)
            fso_situations == SelectSeq(result_data, LAMBDA d :
                                  d.prev_skill = "Reception" /\ d.next_skill = "Attack")
            total_fso_situations == Len(fso_situations)
            successful_fso == Len(SelectSeq(fso_situations, LAMBDA d : d.next_evaluation = "#"))
        IN  IF result_data = <<>> \/ total_fso_situations = 0
            THEN FsoRecord(0, 0, 0)
            ELSE FsoRecord(total_fso_situations, successful_fso,
                           Round1(successful_fso, total_fso_situations))

SoResultData(self, set_df, attack_type) ==
    LET kept == SelectSeq(set_df, LAMBDA r :
                    /\ InIndex(r.idx, self.df_next)
                    /\ ~(attack_type # "Tous" /\ ~is_valid_attack(Loc(self.df_next, r.idx), attack_type)))
    IN  [i \in 1..Len(kept) |->
            [ next_skill      |-> Loc(self.df_next, kept[i].idx).skill,
              next_evaluation |-> Loc(self.df_next, kept[i].idx).evaluation_code ]]

SoRecord(total, successful, pct) ==
    [total_so_situations |-> total, successful_so |-> successful, pct_SO |-> pct]

\* calculate_set_so returning zeros when there is no previous-row table
calculate_set_so_needs_prev(self, set_moment, match_filter, set_filter, set_type, attack_type) ==
    LET set_df == filter_set_df(self, set_moment, match_filter, set_filter, set_type)
    IN  IF set_df = <<>> \/ IsNone(self.df_prev) \/ IsNone(self.df_next)
        THEN SoRecord(0, 0, 0)
        ELSE
        LET so_situations == SelectSeq(SoResultData(self, set_df, attack_type),
                                       LAMBDA d : d.next_skill = "Attack")
            total_so_situations == Len(so_situations)
            successful_so == Len(SelectSeq(so_situations, LAMBDA d : d.next_evaluation = "#"))
        IN  IF total_so_situations = 0
            THEN SoRecord(0, 0, 0)
            ELSE SoRecord(total_so_situations, successful_so,
                          Round1(successful_so, total_so_situations))

\* calculate_set_so counting a pass as a situation only when the attack scores
calculate_set_so_kills_only(self, set_moment, match_filter, set_filter, set_type, attack_type) ==
    LET set_df == filter_set_df(self, set_moment, match_filter, set_filter, set_type)
    IN  IF set_df = <<>> \/ IsNone(self.df_next)
        THEN SoRecord(0, 0, 0)
        ELSE
        LET so_situations == SelectSeq(SoResultData(self, set_df, attack_type),
                                       LAMBDA d : d.next_skill = "Attack" /\ d.next_evaluation = "#")
            total_so_situations == Len(so_situations)
        IN  IF total_so_situations = 0
            THEN SoRecord(0, 0, 0)
            ELSE SoRecord(total_so_situations, total_so_situations, Num(100))

calculate_set_so(self, set_moment, match_filter, set_filter, set_type, attack_type) ==
    LET set_df == filter_set_df(self, set_moment, match_filter, set_filter, set_type)
    IN  IF set_df = <<>> \/ IsNone(self.df_next)
        THEN SoRecord(0, 0, 0)
        ELSE
        LET result_data   == SoResultData(self, set_df, attack_type)
            so_situations == SelectSeq(result_data, LAMBDA d : d.next_skill = "Attack")
            total_so_situations == Len(so_situations)
            successful_so == Len(SelectSeq(so_situations, LAMBDA d : d.next_evaluation = "#"))
        IN  IF result_data = <<>> \/ total_so_situations = 0
            THEN SoRecord(0, 0, 0)
            ELSE SoRecord(total_so_situations, successful_so,
                          Round1(successful_so, total_so_situations))

-----------------------------------------------------------------------------
(* player.py: Player.get_skill_stats, Player.get_skill_efficiency *)

get_skill_stats(self, skill, set_moment, match_filter, set_filter) ==
    LET df    == get_action_df(self, skill, set_moment, match_filter, set_filter)
        total == Len(df)
    IN  IF skill \notin DOMAIN SKILL_EVAL_MAPPINGS THEN Raise("ValueError")
        ELSE
        LET mapping == SKILL_EVAL_MAPPINGS[skill]
            stats   == compute_skill_stats(df, mapping)
        IN  IF total = 0 THEN Ok([key \in DOMAIN stats |-> 0])
            ELSE IF skill = "Set"
            THEN LET fso_stats == calculate_set_fso(self, set_moment, match_filter, set_filter, "Tous", "Tous")
                     so_stats  == calculate_set_so(self, set_moment, match_filter, set_filter, "Tous", "Tous")
                 IN  Ok(Put(Put(stats, P("FSO"), fso_stats.pct_FSO), P("SO"), so_stats.pct_SO))
            ELSE Ok(stats)

\* the slice get_skill_stats_with_filters computes on: the actions of the skill,
\* of the set_type, and for passes those followed by an attack of the attack_type
filtered_df(self, skill, set_moment, match_filter, set_filter, set_type, attack_type) ==
    SelectSeq(get_action_df(self, skill, set_moment, match_filter, set_filter),
              LAMBDA r :
                /\ (set_type # "Tous" => r.set_code = set_type)
                /\ ((attack_type # "Tous" /\ skill = "Set" /\ ~IsNone(self.df_next))
                    => (InIndex(r.idx, self.df_next)
                        /\ is_valid_attack(Loc(self.df_next, r.idx), attack_type))))

\* the record of a slice df of a skill that has a mapping, with FSO and SO for Set
\* the record without the FSO and SO of the passes
FilteredStats_plain(self, df, skill, set_moment, match_filter, set_filter, set_type, attack_type) ==
    IF df = <<>>
    THEN [key \in DOMAIN compute_skill_stats(df, SKILL_EVAL_MAPPINGS[skill]) |-> 0]
    ELSE compute_skill_stats(df, SKILL_EVAL_MAPPINGS[skill])

FilteredStats(self, df, skill, set_moment, match_filter, set_filter, set_type, attack_type) ==
    IF df = <<>>
    THEN [key \in DOMAIN compute_skill_stats(df, SKILL_EVAL_MAPPINGS[skill]) |-> 0]
    ELSE IF skill = "Set"
    THEN Put(Put(compute_skill_stats(df, SKILL_EVAL_MAPPINGS[skill]),
                 P("FSO"), calculate_set_fso(self, set_moment, match_filter, set_filter,
                                             set_type, attack_type).pct_FSO),
             P("SO"), calculate_set_so(self, set_moment, match_filter, set_filter,
                                       set_type, attack_type).pct_SO)
    ELSE compute_skill_stats(df, SKILL_EVAL_MAPPINGS[skill])

get_skill_stats_with_filters(self, skill, set_moment, match_filter, set_filter, set_type, attack_type) ==
    IF (set_type = "Tous" /\ attack_type = "Tous") /\ skill # "Set"
    THEN get_skill_stats(self, skill, set_moment, match_filter, set_filter)
    ELSE IF skill \notin DOMAIN SKILL_EVAL_MAPPINGS THEN Raise("ValueError")
    ELSE Ok(FilteredStats(self,
                          filtered_df(self, skill, set_moment, match_filter, set_filter,
                                      set_type, attack_type),
                          skill, set_moment, match_filter, set_filter, set_type, attack_type))

CountIn(df, symbols) == Len(SelectSeq(df, LAMBDA r : InSeq(r.evaluation_code, symbols)))

\* the efficiency as positives minus negatives over the number of actions
get_skill_efficiency_net(self, skill, set_moment, match_filter, set_filter) ==
    LET df == get_action_df(self, skill, set_moment, match_filter, set_filter)
    IN  IF df = <<>> THEN Ok(0)
        ELSE IF skill \notin DOMAIN SKILL_EVAL_MAPPINGS THEN Raise("ValueError")
        ELSE IF Len(SKILL_EVAL_MAPPINGS[skill]) < 4 THEN Raise("ValueError")
        ELSE Ok(Round1(CountIn(df, FirstTwo(Symbols(SKILL_EVAL_MAPPINGS[skill])))
                       - CountIn(df, LastTwo(Symbols(SKILL_EVAL_MAPPINGS[skill]))), Len(df)))

get_skill_efficiency(self, skill, set_moment, match_filter, set_filter) ==
    LET df == get_action_df(self, skill, set_moment, match_filter, set_filter)
    IN  IF df = <<>> THEN Ok(0)
        ELSE IF skill \notin DOMAIN SKILL_EVAL_MAPPINGS THEN Raise("ValueError")
        ELSE IF Len(SKILL_EVAL_MAPPINGS[skill]) < 4 THEN Raise("ValueError")
        ELSE
        LET symbols   == Symbols(SKILL_EVAL_MAPPINGS[skill])
            positives == CountIn(df, FirstTwo(symbols))
            negatives == CountIn(df, LastTwo(symbols))
        IN  IF negatives = 0 THEN Ok(IF positives > 0 THEN Num(100) ELSE 0)
            ELSE Ok(Round1(positives, negatives))

-----------------------------------------------------------------------------
(* utils.py: load_data; player.py: Player.__init__ *)

Player(id_, df, df_prev, df_next, team) ==
    [id |-> id_, df |-> df, df_prev |-> df_prev, df_next |-> df_next, team |-> team]

\* re.sub(r'\d+', '', team).lower().title(), then the "France Avenir" normalisation,
\* on the team names of the rosters used here
NormalizeTeam(team) ==
    CASE team = "France Avenir 2024" -> "France Avenir"   \* "France Avenir " holds france and avenir
      [] team = "FRANCE AVENIR"      -> "France Avenir"
      [] team = "CNVB 24-25"         -> "Cnvb -"
      [] team = "Cnvb -"             -> "Cnvb -"
      [] OTHER -> team

\* pd.concat(..., ignore_index=True): the rows renumbered 0, 1, 2, ...
Reindex(rows) == [i \in 1..Len(rows) |-> [rows[i] EXCEPT !.idx = i - 1]]

\* drop_duplicates(subset=['player_id']): the first row of each player_id
DropDuplicates(all_players) ==
    SelectSeq([i \in 1..Len(all_players) |->
                  [row |-> all_players[i],
                   first |-> \A j \in 1..(i - 1) : all_players[j].player_id # all_players[i].player_id]],
              LAMBDA e : e.first)

load_data(plays, all_players) ==
    LET players_df == DropDuplicates(all_players)
    IN  [i \in 1..Len(players_df) |->
            Player(players_df[i].row.player_id,
                   SelectSeq(plays, LAMBDA r : r.player_id = players_df[i].row.player_id),
                   None, None,
                   NormalizeTeam(players_df[i].row.team))]

-----------------------------------------------------------------------------
(* filters.py: create_selector and the selection it keeps in st.session_state *)

\* st.session_state, for the key of one selector: None while the key is absent,
\* [kind |-> "list", items |-> <<...>>] afterwards
NoSelection == [selection |-> None]

ListOf(items) == [kind |-> "list", items |-> items]

\* items[:3] if len(items) > 3 else items if default_selection is None else
\* default_selection: the conditional expression groups to the right
InitialSelection(items, default_selection) ==
    IF Len(items) > 3 THEN SubSeq(items, 1, 3)
    ELSE IF IsNone(default_selection) THEN items
    ELSE default_selection.items

\* session_state[session_key] when the multiselect is built: after the button
\* "Tous" and the initialisation of an absent key
StoredBeforeWidget(state, items, default_selection, pressed) ==
    IF pressed THEN items
    ELSE IF IsNone(state.selection) THEN InitialSelection(items, default_selection)
    ELSE state.selection.items

\* the value of the multiselect: its default, valid_selected, or what the user
\* picked among the options (a sequence of items, or None for an untouched widget)
Selected(stored, items, picked) ==
    IF IsNone(picked) THEN SelectSeq(stored, LAMBDA item : InSeq(item, items))
    ELSE picked.items

create_selector(state, items, default_selection, pressed, picked) ==
    Selected(StoredBeforeWidget(state, items, default_selection, pressed), items, picked)

-----------------------------------------------------------------------------
(* Inputs: the plays and rosters the scout files hold *)

Play(player_id, skill, evaluation_code, match_id, set_number, home, visiting, set_code, attack_code) ==
    [ idx |-> 0, player_id |-> player_id, skill |-> skill, evaluation_code |-> evaluation_code,
      match_id |-> match_id, set_number |-> set_number,
      home_team_score |-> home, visiting_team_score |-> visiting,
      set_code |-> set_code, attack_code |-> attack_code ]

Skills == {"Reception", "Block", "Serve", "Attack", "Dig", "Set"}

\* the six evaluation codes, and one code no mapping holds
Codes == {"#", "+", "!", "-", "/", "=", "x"}

Tables(pool, n) == UNION {[1..k -> pool] : k \in 0..n}

Roster ==
    << [player_id |-> "p1", team |-> "France Avenir 2024"],
       [player_id |-> "p2", team |-> "FRANCE AVENIR"],
       [player_id |-> "p1", team |-> "France Avenir 2024"] >>

OtherSkill(s) == IF s = "Dig" THEN "Block" ELSE "Dig"

\* plays of one skill by player p1 in the first set of match m1 at 5-5, one play
\* late in the second set of match m2, and one play of another skill by a team mate
StatsPool(s) ==
    {Play("p1", s, c, "m1", 1, 5, 5, "", "") : c \in Codes}
    \cup {Play("p1", s, "#", "m2", 2, 21, 19, "", ""),
          Play("p2", OtherSkill(s), "=", "m1", 1, 5, 5, "", "")}

\* filter sets <<set_moment, match_filter, set_filter>> of a query
FilterSets ==
    { <<"Tout", None, None>>,
      <<"20+", None, None>>,
      <<"0-10", [kind |-> "scalar", item |-> "m1"], [kind |-> "list", items |-> <<1>>]>> }

\* the filter sets that cut the slices handed to compute_skill_stats
SliceFilterSets == { <<"Tout", None, None>>, <<"20+", None, None>> }

\* a mapping of three symbols, two of them sharing a label
ShortMapping == << <<"#", "Bon">>, <<"+", "Bon">>, <<"=", "Faute">> >>

\* the mappings compute_skill_stats is called with on a slice of the skill
MappingPool(skill) ==
    (IF skill \in DOMAIN SKILL_EVAL_MAPPINGS THEN {SKILL_EVAL_MAPPINGS[skill]} ELSE {})
    \cup {ShortMapping}

\* the skills a query names: those played, and one without mapping
QuerySkills(plays) == {plays[i].skill : i \in 1..Len(plays)} \cup {"Freeball"}

-----------------------------------------------------------------------------
(* The statistics engine.  One run of the dashboard script: the table is       *)
(* loaded (Init), then one query of the engine is answered.                   *)

Loaded == call.op = "load_data"

Init ==
    /\ \E s \in Skills : all_plays \in {Reindex(t) : t \in Tables(StatsPool(s), MaxRows)}
    /\ players = load_data(all_plays, Roster)
    /\ call = [op |-> "load_data"]
    /\ ret = None
    /\ session_state = NoSelection

GetSkillStats ==
    /\ Loaded
    /\ \E p \in 1..Len(players), skill \in QuerySkills(all_plays), f \in FilterSets :
        /\ call' = [op |-> "get_skill_stats", player |-> p, skill |-> skill,
                    set_moment |-> f[1], match_filter |-> f[2], set_filter |-> f[3]]
        /\ ret' = get_skill_stats(players[p], skill, f[1], f[2], f[3])
        /\ UNCHANGED <<all_plays, players, session_state>>

GetSkillEfficiency ==
    /\ Loaded
    /\ \E p \in 1..Len(players), skill \in QuerySkills(all_plays), f \in FilterSets :
        /\ call' = [op |-> "get_skill_efficiency", player |-> p, skill |-> skill,
                    set_moment |-> f[1], match_filter |-> f[2], set_filter |-> f[3]]
        /\ ret' = get_skill_efficiency(players[p], skill, f[1], f[2], f[3])
        /\ UNCHANGED <<all_plays, players, session_state>>

\* the static call compute_skill_stats(df, eval_mapping) on a slice of a player
ComputeSkillStats ==
    /\ Loaded
    /\ \E p \in 1..Len(players), skill \in QuerySkills(all_plays), f \in SliceFilterSets :
       \E eval_mapping \in MappingPool(skill) :
        LET df == get_action_df(players[p], skill, f[1], f[2], f[3])
        IN  /\ call' = [op |-> "compute_skill_stats", df |-> df, eval_mapping |-> eval_mapping]
            /\ ret' = Ok(compute_skill_stats(df, eval_mapping))
            /\ UNCHANGED <<all_plays, players, session_state>>

\* set_skill.py: the row of a passer in the table of display_set_stats
StatsRow(total, jouable_count, faute_count, pct_fso, pct_so) ==
    IF total <= 0 THEN None
    ELSE [kind |-> "row",
          row  |-> [k \in {K("Total"), K("Jouable"), K("Faute"), P("Jouable"), P("Faute"),
                           P("FSO"), P("SO")} |->
                      CASE k = K("Total")   -> total
                        [] k = K("Jouable") -> jouable_count
                        [] k = K("Faute")   -> faute_count
                        [] k = P("Jouable") -> Round1(jouable_count, total)
                        [] k = P("Faute")   -> Round1(faute_count, total)
                        [] k = P("FSO")     -> pct_fso
                        [] k = P("SO")      -> pct_so]]

\* the row with jouable_keys missing the label of '/'
calculate_stats_row_no_nulle(stats) ==
    StatsRow(stats[K("Total")],
             Get(stats, K("Parfaite")) + Get(stats, K("Bonne")) + Get(stats, K("Ok"))
                 + Get(stats, K("Mauvaise")),
             Get(stats, K("Faute")), Get(stats, P("FSO")), Get(stats, P("SO")))

calculate_stats_row(stats) ==
    StatsRow(stats[K("Total")],
             Get(stats, K("Parfaite")) + Get(stats, K("Bonne")) + Get(stats, K("Ok"))
                 + Get(stats, K("Mauvaise")) + Get(stats, K("Nulle")),
             Get(stats, K("Faute")), Get(stats, P("FSO")), Get(stats, P("SO")))

\* one passer of display_set_stats: the record of the passes, then the row
CalculateStatsRow ==
    /\ Loaded
    /\ \E p \in 1..Len(players), f \in SliceFilterSets :
        /\ call' = [op |-> "calculate_stats_row", player |-> p, skill |-> "Set",
                    set_moment |-> f[1], match_filter |-> f[2], set_filter |-> f[3]]
        /\ ret' = Ok(calculate_stats_row(
                        get_skill_stats_with_filters(players[p], "Set", f[1], f[2], f[3],
                                                     "Tous", "Tous").val))
        /\ UNCHANGED <<all_plays, players, session_state>>

Next == GetSkillStats \/ ComputeSkillStats \/ CalculateStatsRow

Spec == Init /\ [][Next]_vars

NextEfficiency == GetSkillEfficiency

SpecEfficiency == Init /\ [][NextEfficiency]_vars

-----------------------------------------------------------------------------
(* filters.py: aggregate_team_stats, team_selector; utils.py: team_selector;   *)
(* skill.py: display_team_stats; team.py: Team.create_team_global_player      *)

\* unique_preserve_order
unique_preserve_order(seq) ==
    LET firsts == SelectSeq([i \in 1..Len(seq) |->
                                [x |-> seq[i], first |-> \A j \in 1..(i - 1) : seq[j] # seq[i]]],
                            LAMBDA e : e.first)
    IN  [i \in 1..Len(firsts) |-> firsts[i].x]

TeamPlayers(plist, team) == SelectSeq(plist, LAMBDA q : q.team = team)

\* aggregate_team_stats keeping the first player's record only
aggregate_team_stats_first(plist, skill, moment, match_filter, set_filter) ==
    IF plist = <<>> THEN Ok([k \in {K("Total")} |-> 0])
    ELSE get_skill_stats(plist[1], skill, moment, match_filter, set_filter)

\* team_stats[k] += v over the players' records recs, every key alike
SumStats(recs) ==
    IF \E i \in 1..Len(recs) : recs[i].kind = "raise" THEN Raise("ValueError")
    ELSE Ok([k \in UNION {DOMAIN recs[i].val \ {K("Total")} : i \in 1..Len(recs)} \cup {K("Total")} |->
               SumSeq([i \in 1..Len(recs) |-> Get(recs[i].val, k)])])

aggregate_team_stats(plist, skill, moment, match_filter, set_filter) ==
    SumStats(List([i \in 1..Len(plist) |->
                      get_skill_stats(plist[i], skill, moment, match_filter, set_filter)]))

\* the key of the row a category is written under (filters.py)
RowKey(category) == IF StartsWithPct(category) THEN category ELSE Pct(category)

\* One row of team_selector (filters.py).  The categories 'L' and '% L' are both
\* written under '% L'; the one iterated last stays.  The iteration order of
\* team_stats is that of a set of strings: late_counts is the set of categories
\* 'L' that come after '% L' in it.
TeamRow(team, stats, late_counts) ==
    LET total == stats[K("Total")]
        cats  == DOMAIN stats \ {K("Total")}
        Value(c) == Round1(stats[c], total)
    IN  [ Equipe |-> team, Nbre_Total |-> total,
          pcts |-> [rk \in {RowKey(c) : c \in cats} |->
                      LET count_cat == <<rk[1] - 1, rk[2]>>
                      IN  IF rk \in cats /\ rk[1] = 1 /\ count_cat \in cats
                          THEN IF count_cat \in late_counts THEN Value(count_cat) ELSE Value(rk)
                          ELSE IF rk \in cats THEN Value(rk) ELSE Value(count_cat)] ]

\* One row of team_selector (utils.py): every category written under f"% {category}"
UtilsTeamRow(team, stats) ==
    LET total == stats[K("Total")]
        cats  == DOMAIN stats \ {K("Total")}
    IN  [ Equipe |-> team, Nbre_Total |-> total,
          pcts |-> [rk \in {Pct(c) : c \in cats} |-> Round1(stats[<<rk[1] - 1, rk[2]>>], total)] ]

TeamsOf(plist) == unique_preserve_order(
    LET with_team == SelectSeq(plist, LAMBDA q : q.team # "")
    IN  [i \in 1..Len(with_team) |-> with_team[i].team])

\* team_selector (filters.py); selected_teams is what the multiselect of
\* create_selector returns
\* the teams with Total > 0, given the aggregated stats of the selected teams
ShownTeams(selected_teams, stats) ==
    SelectSeq([i \in 1..Len(selected_teams) |-> i], LAMBDA i : stats[i].val[K("Total")] > 0)

\* data of team_selector (filters.py), given the aggregated stats of the selected teams
TeamData(selected_teams, stats, late_counts) ==
    IF \E i \in 1..Len(selected_teams) : stats[i].kind = "raise" THEN Raise("ValueError")
    ELSE Ok([kind |-> "DataFrame",
             rows |-> [j \in 1..Len(ShownTeams(selected_teams, stats)) |->
                          TeamRow(selected_teams[ShownTeams(selected_teams, stats)[j]],
                                  stats[ShownTeams(selected_teams, stats)[j]].val, late_counts)]])

team_selector(plist, skill, moment, selected_matches, set_filter, selected_teams, late_counts) ==
    IF selected_teams = <<>> THEN Ok(None)
    ELSE TeamData(selected_teams,
                  List([i \in 1..Len(selected_teams) |->
                           aggregate_team_stats(
                               TeamPlayers(SelectSeq(plist, LAMBDA q : InSeq(q.team, selected_teams)),
                                           selected_teams[i]),
                               skill, moment, selected_matches, set_filter)]),
                  late_counts)

\* data of team_selector (utils.py), given the aggregated stats of the selected teams
UtilsTeamData(selected_teams, stats) ==
    IF \E i \in 1..Len(selected_teams) : stats[i].kind = "raise" THEN Raise("ValueError")
    ELSE Ok([kind |-> "DataFrame",
             rows |-> [j \in 1..Len(ShownTeams(selected_teams, stats)) |->
                          UtilsTeamRow(selected_teams[ShownTeams(selected_teams, stats)[j]],
                                       stats[ShownTeams(selected_teams, stats)[j]].val)]])

utils_team_selector(plist, skill, moment, selected_matches, set_filter, selected_teams) ==
    IF selected_teams = <<>> THEN Ok(None)
    ELSE UtilsTeamData(selected_teams,
                       List([i \in 1..Len(selected_teams) |->
                                aggregate_team_stats(
                                    TeamPlayers(SelectSeq(plist, LAMBDA q : InSeq(q.team, selected_teams)),
                                                selected_teams[i]),
                                    skill, moment, selected_matches, set_filter)]))

\* main.py: categories = unique_preserve_order(SKILL_EVAL_MAPPINGS.get(skill, {}).values())
Categories(skill) ==
    IF skill \in DOMAIN SKILL_EVAL_MAPPINGS
    THEN unique_preserve_order([i \in 1..Len(SKILL_EVAL_MAPPINGS[skill]) |-> SKILL_EVAL_MAPPINGS[skill][i][2]])
    ELSE <<>>

\* equipe_stats and table_data of display_team_stats, given the players' stats recs
EquipeStats(with_team, recs, categories) ==
    IF \E i \in 1..Len(with_team) : recs[i].kind = "raise" THEN Raise("ValueError")
    ELSE
    LET counted == {i \in 1..Len(with_team) : recs[i].val[K("Total")] > 0}
        teams   == {with_team[i].team : i \in counted}
        keys    == {K(categories[i]) : i \in 1..Len(categories)} \cup {K("Total")}
        equipe_stats == [t \in teams |-> [k \in keys |->
                            SumSeq([i \in 1..Len(with_team) |->
                                      IF i \in counted /\ with_team[i].team = t
                                      THEN Get(recs[i].val, k) ELSE 0])]]
    IN  Ok([ equipe_stats |-> equipe_stats,
             table_data   |-> [t \in {u \in teams : equipe_stats[u][K("Total")] # 0} |->
                                 [ Equipe |-> t, Nbre_Total |-> equipe_stats[t][K("Total")],
                                   pcts |-> [rk \in {Pct(k) : k \in keys \ {K("Total")}} |->
                                               Round1(equipe_stats[t][<<0, rk[2]>>],
                                                      equipe_stats[t][K("Total")])] ]] ])

\* display_team_stats: the sums kept in equipe_stats and the rows of the table shown
display_team_stats(plist, selected_matches, moment, set_filter, skill, categories) ==
    IF ~Truthy(selected_matches) THEN Ok(None)
    ELSE EquipeStats(SelectSeq(plist, LAMBDA q : q.team # ""),
                     List([i \in 1..Len(SelectSeq(plist, LAMBDA q : q.team # "")) |->
                              get_skill_stats(SelectSeq(plist, LAMBDA q : q.team # "")[i],
                                              skill, moment, selected_matches, set_filter)]),
                     categories)

RECURSIVE Concat(_)
Concat(dfs) == IF dfs = <<>> THEN <<>> ELSE Head(dfs) \o Concat(Tail(dfs))

create_team_global_player(plist, team_name) ==
    LET team_players == TeamPlayers(plist, team_name)
    IN  IF team_players = <<>> THEN None
        ELSE [kind |-> "Player",
              player |-> Player(<<"team_", team_name>>,
                                Reindex(Concat([i \in 1..Len(team_players) |-> team_players[i].df])),
                                None, None, team_name)]

-----------------------------------------------------------------------------
(* Team views: the table is loaded, then one team view is computed *)

TeamRoster ==
    << [player_id |-> "p1", team |-> "France Avenir 2024"],
       [player_id |-> "p2", team |-> "FRANCE AVENIR"],
       [player_id |-> "p3", team |-> "CNVB 24-25"] >>

\* plays of one skill by two team mates and by a player of another team
TeamPool(s) ==
    { Play("p1", s, "#", "m1", 1, 5, 5, "", ""),
      Play("p1", s, "=", "m1", 1, 5, 5, "", ""),
      Play("p2", s, "#", "m1", 1, 5, 5, "", ""),
      Play("p3", s, "#", "m1", 1, 5, 5, "", ""),
      Play("p1", s, "+", "m2", 2, 21, 19, "", "") }

TeamSkills == {"Reception", "Serve"}

TeamFilterSets ==
    { <<"Tout", None, None>>,
      <<"Tout", [kind |-> "list", items |-> <<"m1">>], [kind |-> "list", items |-> <<1>>]>> }

TeamNames(plist) == {TeamsOf(plist)[i] : i \in 1..Len(TeamsOf(plist))}

CountKeys(skill) == {K(Categories(skill)[i]) : i \in 1..Len(Categories(skill))}

\* iteration orders of the categories of team_stats: no label after its '% label',
\* one label after it, every label after it
LateCounts(skill) ==
    {{}, CountKeys(skill)} \cup {{k} : k \in CountKeys(skill)}

InitTeam ==
    /\ \E s \in TeamSkills : all_plays \in {Reindex(t) : t \in Tables(TeamPool(s), MaxRows)}
    /\ players = load_data(all_plays, TeamRoster)
    /\ call = [op |-> "load_data"]
    /\ ret = None
    /\ session_state = NoSelection

AggregateTeamStats ==
    /\ Loaded
    /\ \E team \in TeamNames(players), skill \in QuerySkills(all_plays), f \in TeamFilterSets :
        /\ call' = [op |-> "aggregate_team_stats", team |-> team, skill |-> skill,
                    set_moment |-> f[1], match_filter |-> f[2], set_filter |-> f[3]]
        /\ ret' = aggregate_team_stats(TeamPlayers(players, team), skill, f[1], f[2], f[3])
        /\ UNCHANGED <<all_plays, players, session_state>>

TeamSelector ==
    /\ Loaded
    /\ \E skill \in QuerySkills(all_plays), f \in TeamFilterSets,
          selected_teams \in {TeamsOf(players), <<>>} :
       \E late_counts \in LateCounts(skill) :
        /\ call' = [op |-> "team_selector", skill |-> skill, selected_teams |-> selected_teams,
                    set_moment |-> f[1], match_filter |-> f[2], set_filter |-> f[3]]
        /\ ret' = team_selector(players, skill, f[1], f[2], f[3], selected_teams, late_counts)
        /\ UNCHANGED <<all_plays, players, session_state>>

UtilsTeamSelector ==
    /\ Loaded
    /\ \E skill \in QuerySkills(all_plays), f \in TeamFilterSets,
          selected_teams \in {TeamsOf(players), <<>>} :
        /\ call' = [op |-> "utils.team_selector", skill |-> skill, selected_teams |-> selected_teams,
                    set_moment |-> f[1], match_filter |-> f[2], set_filter |-> f[3]]
        /\ ret' = utils_team_selector(players, skill, f[1], f[2], f[3], selected_teams)
        /\ UNCHANGED <<all_plays, players, session_state>>

DisplayTeamStats ==
    /\ Loaded
    /\ \E skill \in QuerySkills(all_plays), f \in TeamFilterSets :
        /\ call' = [op |-> "display_team_stats", skill |-> skill,
                    set_moment |-> f[1], match_filter |-> f[2], set_filter |-> f[3]]
        /\ ret' = display_team_stats(players, f[2], f[1], f[3], skill, Categories(skill))
        /\ UNCHANGED <<all_plays, players, session_state>>

\* get_skill_stats of the player Team.create_team_global_player builds for a team
TeamGlobalPlayerStats ==
    /\ Loaded
    /\ \E team \in TeamNames(players) \cup {"Nowhere"}, skill \in QuerySkills(all_plays),
          f \in TeamFilterSets :
        LET made == create_team_global_player(players, team)
        IN  /\ call' = [op |-> "create_team_global_player", team |-> team, skill |-> skill,
                        set_moment |-> f[1], match_filter |-> f[2], set_filter |-> f[3]]
            /\ ret' = IF IsNone(made) THEN Ok(None)
                      ELSE get_skill_stats(made.player, skill, f[1], f[2], f[3])
            /\ UNCHANGED <<all_plays, players, session_state>>

NextTeam ==
    \/ AggregateTeamStats
    \/ TeamSelector
    \/ UtilsTeamSelector
    \/ DisplayTeamStats
    \/ TeamGlobalPlayerStats

SpecTeam == InitTeam /\ [][NextTeam]_vars

-----------------------------------------------------------------------------
(* Setter metrics: a Player is built on its slice of the loaded table, with or *)
(* without previous-row and next-row tables, and asked for its FSO or its SO    *)

\* passes of p1 of two types in two matches; receptions and attacks of p2
SetPool ==
    { Play("p1", "Set", "+", "m1", 1, 5, 5, "K1", ""),
      Play("p1", "Set", "+", "m2", 2, 21, 19, "K2", ""),
      Play("p2", "Reception", "+", "m1", 1, 5, 5, "", ""),
      Play("p2", "Attack", "#", "m1", 1, 5, 5, "", "V5"),
      Play("p2", "Attack", "=", "m1", 1, 5, 5, "", "X1") }

\* set_moment, match_filter, set_filter, set_type, attack_type
SetFilterSets ==
    { <<"Tout", None, None, "Tous", "Tous">>,
      <<"Tout", None, None, "K1", "Tous">>,
      <<"Tout", None, None, "Tous", "V5">>,
      <<"Tout", [kind |-> "list", items |-> <<"m1">>], [kind |-> "list", items |-> <<1>>], "Tous", "Tous">> }

\* the previous-row table of the plays: under the index of a row, the row before
\* it; the indexes of `missing` have no entry
PrevTable(plays, missing) ==
    [kind |-> "table",
     rows |-> SelectSeq([i \in 1..Len(plays) |->
                            IF i = 1 THEN [plays[i] EXCEPT !.skill = "no row"]
                            ELSE [plays[i - 1] EXCEPT !.idx = plays[i].idx]],
                        LAMBDA r : r.skill # "no row" /\ r.idx \notin missing)]

\* the next-row table of the plays: under the index of a row, the row after it
NextTable(plays, missing) ==
    [kind |-> "table",
     rows |-> SelectSeq([i \in 1..Len(plays) |->
                            IF i = Len(plays) THEN [plays[i] EXCEPT !.skill = "no row"]
                            ELSE [plays[i + 1] EXCEPT !.idx = plays[i].idx]],
                        LAMBDA r : r.skill # "no row" /\ r.idx \notin missing)]

\* at most one index of the table left without an entry
MissingSets(plays) == {{}} \cup {{i - 1} : i \in 1..Len(plays)}

PrevTables(plays) == {None} \cup {PrevTable(plays, m) : m \in MissingSets(plays)}

NextTables(plays) == {None} \cup {NextTable(plays, m) : m \in MissingSets(plays)}

InitSet ==
    /\ all_plays \in {Reindex(t) : t \in Tables(SetPool, MaxRows)}
    /\ players = load_data(all_plays, Roster)
    /\ call = [op |-> "load_data"]
    /\ ret = None
    /\ session_state = NoSelection

CalculateSetFso ==
    /\ Loaded
    /\ \E i \in 1..Len(players), f \in SetFilterSets,
          df_prev \in PrevTables(all_plays), df_next \in NextTables(all_plays) :
        LET self == Player(players[i].id, players[i].df, df_prev, df_next, players[i].team)
        IN  /\ call' = [op |-> "calculate_set_fso", self |-> self,
                        set_moment |-> f[1], match_filter |-> f[2], set_filter |-> f[3],
                        set_type |-> f[4], attack_type |-> f[5]]
            /\ ret' = calculate_set_fso(self, f[1], f[2], f[3], f[4], f[5])
            /\ UNCHANGED <<all_plays, players, session_state>>

CalculateSetSo ==
    /\ Loaded
    /\ \E i \in 1..Len(players), f \in SetFilterSets,
          df_prev \in PrevTables(all_plays), df_next \in NextTables(all_plays) :
        LET self == Player(players[i].id, players[i].df, df_prev, df_next, players[i].team)
        IN  /\ call' = [op |-> "calculate_set_so", self |-> self,
                        set_moment |-> f[1], match_filter |-> f[2], set_filter |-> f[3],
                        set_type |-> f[4], attack_type |-> f[5]]
            /\ ret' = calculate_set_so(self, f[1], f[2], f[3], f[4], f[5])
            /\ UNCHANGED <<all_plays, players, session_state>>

\* calculate_set_so as the application calls it: on a player of load_data
LoadedPlayerSetSo ==
    /\ Loaded
    /\ \E i \in 1..Len(players), f \in SetFilterSets :
        /\ call' = [op |-> "players.calculate_set_so", self |-> players[i],
                    set_moment |-> f[1], match_filter |-> f[2], set_filter |-> f[3],
                    set_type |-> f[4], attack_type |-> f[5]]
        /\ ret' = calculate_set_so(players[i], f[1], f[2], f[3], f[4], f[5])
        /\ UNCHANGED <<all_plays, players, session_state>>

NextSet ==
    \/ CalculateSetFso
    \/ CalculateSetSo
    \/ LoadedPlayerSetSo

SpecSet == InitSet /\ [][NextSet]_vars

-----------------------------------------------------------------------------
(* Extended filtering: a Player is built on its slice of the loaded table and   *)
(* asked for the statistics of a skill with a pass type and an attack type     *)

GetSkillStatsWithFilters ==
    /\ Loaded
    /\ \E i \in 1..Len(players), skill \in QuerySkills(all_plays), f \in SetFilterSets,
          df_prev \in {None, PrevTable(all_plays, {})}, df_next \in NextTables(all_plays) :
        LET self == Player(players[i].id, players[i].df, df_prev, df_next, players[i].team)
        IN  /\ call' = [op |-> "get_skill_stats_with_filters", self |-> self, skill |-> skill,
                        set_moment |-> f[1], match_filter |-> f[2], set_filter |-> f[3],
                        set_type |-> f[4], attack_type |-> f[5]]
            /\ ret' = get_skill_stats_with_filters(self, skill, f[1], f[2], f[3], f[4], f[5])
            /\ UNCHANGED <<all_plays, players, session_state>>

NextWithFilters == GetSkillStatsWithFilters

SpecWithFilters == InitSet /\ [][NextWithFilters]_vars

-----------------------------------------------------------------------------
(* The filter stage: the table is loaded, then one slice of a player is cut *)

\* plays of p1 at scores on both sides of the bucket limits, in two matches and
\* three sets, and one play of another skill
MomentPool ==
    { Play("p1", "Reception", "#", "m1", 1, 5, 5, "", ""),
      Play("p1", "Reception", "+", "m1", 1, 10, 10, "", ""),
      Play("p1", "Reception", "!", "m1", 2, 15, 9, "", ""),
      Play("p1", "Reception", "-", "m2", 2, 21, 19, "", ""),
      Play("p1", "Reception", "/", "m2", 3, 25, 23, "", ""),
      Play("p1", "Dig", "#", "m1", 1, 20, 20, "", "") }

\* the four moments of SET_MOMENTS and two values that are not among them: the
\* name "Fin" of the block page, and None of the comparison page, written "None"
MomentArgs == {SET_MOMENTS[i] : i \in 1..Len(SET_MOMENTS)} \cup {"Fin", "None"}

\* pairs <<match_filter, set_filter>>
MatchSetArgs ==
    { <<None, None>>,
      <<[kind |-> "list", items |-> <<>>], [kind |-> "scalar", item |-> 2]>>,
      <<[kind |-> "scalar", item |-> "m1"], [kind |-> "list", items |-> <<1, 2>>]>>,
      <<[kind |-> "list", items |-> <<"m2", "m1">>], [kind |-> "list", items |-> <<>>]>>,
      <<[kind |-> "list", items |-> <<"m2">>], None>> }

InitActions ==
    /\ all_plays \in {Reindex(t) : t \in Tables(MomentPool, MaxRows)}
    /\ players = load_data(all_plays, Roster)
    /\ call = [op |-> "load_data"]
    /\ ret = None
    /\ session_state = NoSelection

GetActionDf ==
    /\ Loaded
    /\ \E p \in 1..Len(players), skill \in {"Reception", "Dig"},
          set_moment \in MomentArgs, f \in MatchSetArgs :
        /\ call' = [op |-> "get_action_df", player |-> p, skill |-> skill,
                    set_moment |-> set_moment, match_filter |-> f[1], set_filter |-> f[2]]
        /\ ret' = get_action_df(players[p], skill, set_moment, f[1], f[2])
        /\ UNCHANGED <<all_plays, players, session_state>>

\* get_skill_stats with the moment a page hands over
GetSkillStatsOfMoment ==
    /\ Loaded
    /\ \E p \in 1..Len(players), skill \in {"Reception", "Dig"},
          set_moment \in MomentArgs, f \in MatchSetArgs :
        /\ call' = [op |-> "get_skill_stats", player |-> p, skill |-> skill,
                    set_moment |-> set_moment, match_filter |-> f[1], set_filter |-> f[2]]
        /\ ret' = get_skill_stats(players[p], skill, set_moment, f[1], f[2])
        /\ UNCHANGED <<all_plays, players, session_state>>

NextActions == GetActionDf \/ GetSkillStatsOfMoment

SpecActions == InitActions /\ [][NextActions]_vars

-----------------------------------------------------------------------------
(* The best player of a skill: Player.get_best_players_by_skill on a list of   *)
(* the loaded players                                                          *)

\* the entry of every player of the list, in the order of the list
PlayerEntries(plist, stats) ==
    List([i \in 1..Len(plist) |->
            [ player        |-> plist[i],
              efficiency    |-> Get(stats[i].val, P("Efficacite")),
              total_actions |-> Get(stats[i].val, K("Total")) ]])

\* entries by descending efficiency, those of equal efficiency in the order
\* they had
RECURSIVE StableDescending(_)
StableDescending(entries) ==
    IF entries = <<>> THEN <<>>
    ELSE LET placed == StableDescending(SubSeq(entries, 1, Len(entries) - 1))
             x      == entries[Len(entries)]
         IN  SelectSeq(placed, LAMBDA e : e.efficiency >= x.efficiency)
             \o <<x>>
             \o SelectSeq(placed, LAMBDA e : e.efficiency < x.efficiency)

Reversed(s) == [i \in 1..Len(s) |-> s[Len(s) + 1 - i]]

\* a descending sort that leaves the entries of equal efficiency in the
\* opposite order
sort_reverse_unstable(entries) == StableDescending(Reversed(entries))

\* list.sort(key = efficiency, reverse = True)
sort_reverse(entries) == StableDescending(entries)

BestOf(valid_players) ==
    IF valid_players = <<>> THEN Ok(None) ELSE Ok(valid_players[1])

FirstRaise(stats) == stats[CHOOSE i \in 1..Len(stats) : stats[i].kind = "raise"]

BestAmong(plist, stats, min_actions) ==
    IF \E i \in 1..Len(stats) : stats[i].kind = "raise" THEN FirstRaise(stats)
    ELSE BestOf(sort_reverse(SelectSeq(PlayerEntries(plist, stats),
                                       LAMBDA v : v.total_actions >= Num(min_actions))))

get_best_players_by_skill(plist, skill, set_moment, match_filter, set_filter, min_actions) ==
    BestAmong(plist,
              List([i \in 1..Len(plist) |->
                      get_skill_stats(plist[i], skill, set_moment, match_filter, set_filter)]),
              min_actions)

\* the lists of players handed over: the loaded players in their order or in
\* the opposite one
PlayerLists(plist) == {plist, Reversed(plist)}

MinActions == {0, 1, 2}

GetBestPlayersBySkill ==
    /\ Loaded
    /\ \E plist \in PlayerLists(players), skill \in QuerySkills(all_plays),
          f \in TeamFilterSets, min_actions \in MinActions :
        /\ call' = [op |-> "get_best_players_by_skill", players |-> plist, skill |-> skill,
                    set_moment |-> f[1], match_filter |-> f[2], set_filter |-> f[3],
                    min_actions |-> min_actions]
        /\ ret' = get_best_players_by_skill(plist, skill, f[1], f[2], f[3], min_actions)
        /\ UNCHANGED <<all_plays, players, session_state>>

NextBest == GetBestPlayersBySkill

SpecBest == InitTeam /\ [][NextBest]_vars

-----------------------------------------------------------------------------
(* A session of queries: the players are built with or without adjacency      *)
(* tables, then the pages ask queries of them one after the other             *)

WithTables(plist, df_prev, df_next) ==
    [i \in 1..Len(plist) |->
        Player(plist[i].id, plist[i].df, df_prev, df_next, plist[i].team)]

\* a query that would store the slice it computed as the player's table
AfterQuery_keeps_slice(self, slice) == [self EXCEPT !.df = slice]

\* the Player object after a query that computed the slice: no query assigns an
\* attribute of self, and boolean indexing builds a new frame
AfterQuery(self, slice) == self

\* set_moment, match_filter, set_filter, set_type, attack_type
SessionFilterSets ==
    { <<"Tout", None, None, "Tous", "Tous">>,
      <<"Tout", None, None, "K1", "V5">> }

SessionSkills == {"Set", "Attack"}

\* a pass of p1, and a reception and two attacks of p2
SessionPool ==
    { Play("p1", "Set", "+", "m1", 1, 5, 5, "K1", ""),
      Play("p2", "Reception", "+", "m1", 1, 5, 5, "", ""),
      Play("p2", "Attack", "#", "m1", 1, 5, 5, "", "V5"),
      Play("p2", "Attack", "=", "m1", 1, 5, 5, "", "X1") }

\* set_moment, match_filter, set_filter of the queries without set_type
SessionBaseFilter == <<"Tout", None, None>>

\* 1 for the first query of the session, 2 for every later one
Nth == IF Loaded THEN 1 ELSE 2

InitSession ==
    /\ all_plays \in {Reindex(t) : t \in Tables(SessionPool, MaxRows)}
    /\ players \in {WithTables(load_data(all_plays, Roster), None, None),
                    WithTables(load_data(all_plays, Roster),
                               PrevTable(all_plays, {}), NextTable(all_plays, {}))}
    /\ call = [op |-> "load_data"]
    /\ ret = None
    /\ session_state = NoSelection

SessionGetActionDf ==
    \E i \in 1..Len(players), skill \in SessionSkills, f \in {SessionBaseFilter} :
        /\ call' = [op |-> "get_action_df", player |-> i, skill |-> skill,
                    set_moment |-> f[1], match_filter |-> f[2], set_filter |-> f[3],
                    set_type |-> "Tous", attack_type |-> "Tous", nth |-> Nth]
        /\ ret' = Ok(get_action_df(players[i], skill, f[1], f[2], f[3]))
        /\ players' = [players EXCEPT ![i] =
                          AfterQuery(@, get_action_df(@, skill, f[1], f[2], f[3]))]
        /\ UNCHANGED <<all_plays, session_state>>

SessionGetSkillStats ==
    \E i \in 1..Len(players), skill \in SessionSkills, f \in {SessionBaseFilter} :
        /\ call' = [op |-> "get_skill_stats", player |-> i, skill |-> skill,
                    set_moment |-> f[1], match_filter |-> f[2], set_filter |-> f[3],
                    set_type |-> "Tous", attack_type |-> "Tous", nth |-> Nth]
        /\ ret' = get_skill_stats(players[i], skill, f[1], f[2], f[3])
        /\ players' = [players EXCEPT ![i] =
                          AfterQuery(@, get_action_df(@, skill, f[1], f[2], f[3]))]
        /\ UNCHANGED <<all_plays, session_state>>

SessionGetSkillStatsWithFilters ==
    \E i \in 1..Len(players), skill \in SessionSkills, f \in SessionFilterSets :
        /\ call' = [op |-> "get_skill_stats_with_filters", player |-> i, skill |-> skill,
                    set_moment |-> f[1], match_filter |-> f[2], set_filter |-> f[3],
                    set_type |-> f[4], attack_type |-> f[5], nth |-> Nth]
        /\ ret' = get_skill_stats_with_filters(players[i], skill, f[1], f[2], f[3], f[4], f[5])
        /\ players' = [players EXCEPT ![i] =
                          AfterQuery(@, filtered_df(@, skill, f[1], f[2], f[3], f[4], f[5]))]
        /\ UNCHANGED <<all_plays, session_state>>

SessionGetSkillEfficiency ==
    \E i \in 1..Len(players), skill \in SessionSkills, f \in {SessionBaseFilter} :
        /\ call' = [op |-> "get_skill_efficiency", player |-> i, skill |-> skill,
                    set_moment |-> f[1], match_filter |-> f[2], set_filter |-> f[3],
                    set_type |-> "Tous", attack_type |-> "Tous", nth |-> Nth]
        /\ ret' = get_skill_efficiency(players[i], skill, f[1], f[2], f[3])
        /\ players' = [players EXCEPT ![i] =
                          AfterQuery(@, get_action_df(@, skill, f[1], f[2], f[3]))]
        /\ UNCHANGED <<all_plays, session_state>>

SessionCalculateSetFso ==
    \E i \in 1..Len(players), f \in SessionFilterSets :
        /\ call' = [op |-> "calculate_set_fso", player |-> i, skill |-> "Set",
                    set_moment |-> f[1], match_filter |-> f[2], set_filter |-> f[3],
                    set_type |-> f[4], attack_type |-> f[5], nth |-> Nth]
        /\ ret' = Ok(calculate_set_fso(players[i], f[1], f[2], f[3], f[4], f[5]))
        /\ players' = [players EXCEPT ![i] =
                          AfterQuery(@, filter_set_df(@, f[1], f[2], f[3], f[4]))]
        /\ UNCHANGED <<all_plays, session_state>>

SessionCalculateSetSo ==
    \E i \in 1..Len(players), f \in SessionFilterSets :
        /\ call' = [op |-> "calculate_set_so", player |-> i, skill |-> "Set",
                    set_moment |-> f[1], match_filter |-> f[2], set_filter |-> f[3],
                    set_type |-> f[4], attack_type |-> f[5], nth |-> Nth]
        /\ ret' = Ok(calculate_set_so(players[i], f[1], f[2], f[3], f[4], f[5]))
        /\ players' = [players EXCEPT ![i] =
                          AfterQuery(@, filter_set_df(@, f[1], f[2], f[3], f[4]))]
        /\ UNCHANGED <<all_plays, session_state>>

NextSession ==
    \/ SessionGetActionDf
    \/ SessionGetSkillStats
    \/ SessionGetSkillStatsWithFilters
    \/ SessionGetSkillEfficiency
    \/ SessionCalculateSetFso
    \/ SessionCalculateSetSo

SpecSession == InitSession /\ [][NextSession]_vars

-----------------------------------------------------------------------------
(* player_evolution.py: the statistics of the evolution page                  *)

\* attack_type is None or [kind |-> "scalar", item |-> code]
get_skill_stats_with_attack_filter(player, skill, moment, match_filter, set_filter, attack_type) ==
    IF Truthy(attack_type) /\ skill = "Attack"
    THEN get_skill_stats_with_filters(player, skill, moment, match_filter, set_filter,
                                      "Tous", attack_type.item)
    ELSE get_skill_stats(player, skill, moment, match_filter, set_filter)

\* the attack type chosen on the page: None for 'Tous', or a code
AttackTypes == {None, [kind |-> "scalar", item |-> "V5"], [kind |-> "scalar", item |-> "X1"]}

GetSkillStatsWithAttackFilter ==
    /\ Loaded
    /\ \E i \in 1..Len(players), skill \in QuerySkills(all_plays), f \in TeamFilterSets,
          attack_type \in AttackTypes :
        /\ call' = [op |-> "get_skill_stats_with_attack_filter", player |-> i, skill |-> skill,
                    set_moment |-> f[1], match_filter |-> f[2], set_filter |-> f[3],
                    attack_type |-> attack_type]
        /\ ret' = get_skill_stats_with_attack_filter(players[i], skill, f[1], f[2], f[3],
                                                     attack_type)
        /\ UNCHANGED <<all_plays, players, session_state>>

NextEvolution == GetSkillStatsWithAttackFilter

SpecEvolution == InitSet /\ [][NextEvolution]_vars

-----------------------------------------------------------------------------
(* stat_global.py: the global table; team.py: the two global players          *)

MIN_ACTIONS == 30

\* Player.get_skill_labels(with_percent = True)[skill]: '% label' for the labels
\* of the mapping in their order, each once, then '% Efficacite'
get_skill_labels(skill) ==
    LET symbol_map   == SKILL_EVAL_MAPPINGS[skill]
        ordered_vals == unique_preserve_order([i \in 1..Len(symbol_map) |-> symbol_map[i][2]])
    IN  [i \in 1..Len(ordered_vals) |-> P(ordered_vals[i])]
        \o (IF Len(symbol_map) >= 4 THEN <<P("Efficacite")>> ELSE <<>>)

NaN == [kind |-> "nan"]

Value(v) == [kind |-> "value", val |-> v]

\* skill_stats.get(label, np.nan) if total >= MIN_ACTIONS else np.nan
GlobalCell(skill_stats, label) ==
    IF Get(skill_stats, K("Total")) >= Num(MIN_ACTIONS)
    THEN IF label \in DOMAIN skill_stats THEN Value(skill_stats[label]) ELSE NaN
    ELSE NaN

\* the three columns of a skill: 'n skill', 'skill_first_label', 'skill_last_label'
SkillColumns(skill_stats, skill_labels) ==
    [ n           |-> Get(skill_stats, K("Total")) \div 10,
      first_label |-> skill_labels[1],
      first       |-> GlobalCell(skill_stats, skill_labels[1]),
      last_label  |-> skill_labels[Len(skill_labels)],
      last        |-> GlobalCell(skill_stats, skill_labels[Len(skill_labels)]) ]

get_player_stats(player, player_name) ==
    [ Joueur |-> player_name,
      cols   |-> [skill \in DOMAIN SKILL_EVAL_MAPPINGS |->
                     SkillColumns(get_skill_stats(player, skill, "Tout", None, None).val,
                                  get_skill_labels(skill))] ]

\* is_team_france_avenir is imported from utils, which does not define it: the
\* teams it accepts are a parameter, fa_teams
IsFranceAvenir(team, fa_teams) == team \in fa_teams

CombinedPlayer(id_, plist, team) ==
    Player(id_, Reindex(Concat([i \in 1..Len(plist) |-> plist[i].df])), None, None, team)

create_france_avenir_global_player(plist, fa_teams) ==
    CombinedPlayer("fa_team", SelectSeq(plist, LAMBDA q : IsFranceAvenir(q.team, fa_teams)),
                   "France Avenir")

create_other_teams_global_player(plist, fa_teams) ==
    CombinedPlayer("other_team", SelectSeq(plist, LAMBDA q : ~IsFranceAvenir(q.team, fa_teams)),
                   "Autres Equipes")

\* the players of the rows, in the order of the rows
RowPlayers(plist, fa_teams) ==
    << create_france_avenir_global_player(plist, fa_teams),
       create_other_teams_global_player(plist, fa_teams) >>
    \o SelectSeq(plist, LAMBDA q : IsFranceAvenir(q.team, fa_teams))

RowNames(plist, fa_teams) ==
    << "EQUIPE FRANCE AVENIR", "AUTRES EQUIPES" >>
    \o [i \in 1..Len(SelectSeq(plist, LAMBDA q : IsFranceAvenir(q.team, fa_teams))) |->
            SelectSeq(plist, LAMBDA q : IsFranceAvenir(q.team, fa_teams))[i].id]

GlobalRows(row_players, row_names) ==
    List([i \in 1..Len(row_players) |-> get_player_stats(row_players[i], row_names[i])])

\* a global player made of no player holds pd.DataFrame(), a frame without
\* columns: get_action_df raises KeyError on df['skill']
build_global_stats_df(plist, fa_teams) ==
    IF \/ \A i \in 1..Len(plist) : ~IsFranceAvenir(plist[i].team, fa_teams)
       \/ \A i \in 1..Len(plist) : IsFranceAvenir(plist[i].team, fa_teams)
    THEN Raise("KeyError")
    ELSE Ok(GlobalRows(RowPlayers(plist, fa_teams), RowNames(plist, fa_teams)))

\* serves of two team mates and of a player of another team
GlobalPool ==
    { Play("p1", "Serve", "#", "m1", 1, 5, 5, "", ""),
      Play("p1", "Serve", "=", "m1", 1, 5, 5, "", ""),
      Play("p2", "Serve", "+", "m1", 1, 5, 5, "", ""),
      Play("p3", "Serve", "#", "m1", 1, 5, 5, "", "") }

\* the table holding each row of t `copies` times
Replicate(t, copies) ==
    [i \in 1..(copies * Len(t)) |-> t[((i - 1) % Len(t)) + 1]]

\* a scout file of a few plays, or of MIN_ACTIONS times as many
InitGlobal ==
    /\ \E copies \in {1, MIN_ACTIONS} :
          all_plays \in {Reindex(Replicate(t, copies)) : t \in Tables(GlobalPool, MaxRows)}
    /\ players = load_data(all_plays, TeamRoster)
    /\ call = [op |-> "load_data"]
    /\ ret = None
    /\ session_state = NoSelection

BuildGlobalStatsDf ==
    /\ Loaded
    /\ \E fa_teams \in SUBSET TeamNames(players) :
        /\ call' = [op |-> "build_global_stats_df", fa_teams |-> fa_teams]
        /\ ret' = build_global_stats_df(players, fa_teams)
        /\ UNCHANGED <<all_plays, players, session_state>>

NextGlobal == BuildGlobalStatsDf

SpecGlobal == InitGlobal /\ [][NextGlobal]_vars

-----------------------------------------------------------------------------
(* The selector of a page across the reruns of the script                     *)

ItemPool == <<"t1", "t2", "t3", "t4">>

\* the items of a selector: the first teams or names of the pool
ItemLists == {SubSeq(ItemPool, 1, n) : n \in 0..Len(ItemPool)}

\* default_selection as the callers pass it: nothing, the items, the first
\* three of them
Defaults(items) ==
    {None, ListOf(items), ListOf(SubSeq(items, 1, IF Len(items) < 3 THEN Len(items) ELSE 3))}

\* what the user picked in the multiselect: nothing, one item, or all but the first
Picks(items) ==
    IF items = <<>> THEN {ListOf(<<>>)}
    ELSE {ListOf(<<>>), ListOf(<<items[1]>>), ListOf(<<items[Len(items)]>>), ListOf(Tail(items))}

InitSelector ==
    /\ all_plays = <<>>
    /\ players = <<>>
    /\ call = [op |-> "load_data"]
    /\ ret = None
    /\ session_state = NoSelection

\* the first run of a page: no button was pressed, the widget is untouched
CreateSelectorFirstRun ==
    /\ IsNone(session_state.selection)
    /\ \E items \in ItemLists : \E default_selection \in Defaults(items) :
        /\ call' = [op |-> "create_selector", items |-> items,
                    default_selection |-> default_selection, first_use |-> TRUE,
                    pressed |-> FALSE]
        /\ ret' = Ok(create_selector(session_state, items, default_selection, FALSE, None))
        /\ session_state' = [selection |->
                               ListOf(create_selector(session_state, items, default_selection,
                                                      FALSE, None))]
        /\ UNCHANGED <<all_plays, players>>

\* a rerun: the button "Tous" may have been pressed, the user may have picked
CreateSelectorRerun ==
    /\ ~IsNone(session_state.selection)
    /\ \E items \in ItemLists, pressed \in BOOLEAN :
       \E default_selection \in Defaults(items), picked \in {None} \cup Picks(items) :
        /\ call' = [op |-> "create_selector", items |-> items,
                    default_selection |-> default_selection, first_use |-> FALSE,
                    pressed |-> pressed]
        /\ ret' = Ok(create_selector(session_state, items, default_selection, pressed, picked))
        /\ session_state' = [selection |->
                               ListOf(create_selector(session_state, items, default_selection,
                                                      pressed, picked))]
        /\ UNCHANGED <<all_plays, players>>

NextSelector == CreateSelectorFirstRun \/ CreateSelectorRerun

SpecSelector == InitSelector /\ [][NextSelector]_vars

-----------------------------------------------------------------------------
(* Claims C1 - C4: the statistics record *)

CallSlice == get_action_df(players[call.player], call.skill, call.set_moment,
                           call.match_filter, call.set_filter)

ZeroRecord(d) ==
    /\ K("Total") \in DOMAIN d
    /\ d[K("Total")] = 0
    /\ \A k \in DOMAIN d : StartsWithPct(k) => d[k] = 0

\* C1: for a skill with a mapping and filters matching zero actions, get_skill_stats
\* (and compute_skill_stats on the empty slice) returns, without raising, a record
\* whose Total is 0 and whose every key starting with '%' is 0.
C1_ZeroActions ==
    /\ (call.op = "get_skill_stats" /\ call.skill \in DOMAIN SKILL_EVAL_MAPPINGS /\ CallSlice = <<>>)
         => (ret.kind = "ok" /\ ZeroRecord(ret.val))
    /\ (call.op = "compute_skill_stats" /\ call.df = <<>>)
         => (ret.kind = "ok" /\ ZeroRecord(ret.val))

\* a player with plays of the skill, none of them matching the filters
C1_Witness ==
    /\ call.op = "get_skill_stats"
    /\ call.skill \in DOMAIN SKILL_EVAL_MAPPINGS
    /\ CallSlice = <<>>
    /\ get_action_df(players[call.player], call.skill, "Tout", None, None) # <<>>
    /\ ret.kind = "ok"
    /\ \E k \in DOMAIN ret.val : StartsWithPct(k)

\* C2: get_skill_efficiency returns the '% Efficacite' entry of the record of
\* get_skill_stats for the same player, skill and filters.
C2_OneEfficiency ==
    (call.op = "get_skill_efficiency" /\ call.skill \in DOMAIN SKILL_EVAL_MAPPINGS)
      => LET stats == get_skill_stats(players[call.player], call.skill, call.set_moment,
                                      call.match_filter, call.set_filter)
         IN  ret.kind = "ok" /\ stats.kind = "ok" /\ ret.val = stats.val[P("Efficacite")]

\* C3: for a skill of SKILL_EVAL_MAPPINGS and a non-empty slice, the key '% L' of the
\* record of compute_skill_stats holds round(100 * stats[L] / Total, 1) for every
\* label L of the skill's mapping.
C3_LabelPercentages ==
    (/\ call.op = "compute_skill_stats"
     /\ call.df # <<>>
     /\ call.df[1].skill \in DOMAIN SKILL_EVAL_MAPPINGS
     /\ call.eval_mapping = SKILL_EVAL_MAPPINGS[call.df[1].skill])
      => \A L \in LabelsOf(call.eval_mapping) :
            ret.val[Pct(K(L))] = Round1(ret.val[K(L)], ret.val[K("Total")])

RECURSIVE SumCounts(_, _)
SumCounts(d, labels) ==
    IF labels = {} THEN 0
    ELSE LET L == CHOOSE x \in labels : TRUE
         IN  d[K(L)] + SumCounts(d, labels \ {L})

CodesInMapping(df, eval_mapping) ==
    \A i \in 1..Len(df) : InSeq(df[i].evaluation_code, Symbols(eval_mapping))

DistinctLabels(eval_mapping) ==
    \A i, j \in 1..Len(eval_mapping) : eval_mapping[i][2] = eval_mapping[j][2] => i = j

\* C4: for a non-empty slice whose evaluation codes all belong to the mapping, and a
\* mapping whose symbols have distinct labels, the per-label counts of the record of
\* compute_skill_stats sum to Total.
C4_CountsSumToTotal ==
    (/\ call.op = "compute_skill_stats"
     /\ call.df # <<>>
     /\ CodesInMapping(call.df, call.eval_mapping)
     /\ DistinctLabels(call.eval_mapping))
      => SumCounts(ret.val, LabelsOf(call.eval_mapping)) = ret.val[K("Total")]

\* a slice of three actions with three different codes, the last symbol among them
C4_Witness ==
    /\ call.op = "compute_skill_stats"
    /\ Len(call.df) = 3
    /\ CodesInMapping(call.df, call.eval_mapping)
    /\ DistinctLabels(call.eval_mapping)
    /\ {call.df[i].evaluation_code : i \in 1..3} = {"#", "-", "="}
    /\ SumCounts(ret.val, LabelsOf(call.eval_mapping)) = Num(3)

-----------------------------------------------------------------------------
(* Claims C5 - C6: team aggregation *)

\* the sum over the members of the value get_skill_stats gives under key k,
\* for the skill and filters of the call q
RECURSIVE MemberSum(_, _, _)
MemberSum(members, k, q) ==
    IF members = <<>> THEN 0
    ELSE Get(get_skill_stats(Head(members), q.skill, q.set_moment, q.match_filter, q.set_filter).val, k)
         + MemberSum(Tail(members), k, q)

\* what a team percentage recomputed from summed counts is: for '% label' the
\* summed label count over the summed Total; for a derived percentage the value
\* computed on the pooled actions of the team
RecomputedPct(team, rk, q) ==
    LET members == TeamPlayers(players, team)
    IN  IF <<0, rk[2]>> \in CountKeys(q.skill)
        THEN Round1(MemberSum(members, <<0, rk[2]>>, q), MemberSum(members, K("Total"), q))
        ELSE Get(get_skill_stats(create_team_global_player(players, team).player,
                                 q.skill, q.set_moment, q.match_filter, q.set_filter).val, rk)

\* C5: every percentage team_selector reports for a team is the percentage
\* recomputed from the counts summed over the team's players,
\* round(100 * summed count / summed Total, 1), whatever the iteration order of
\* the categories; none comes from a sum of per-player percentages.
C5_TeamPercentages ==
    (call.op = "team_selector" /\ ret.kind = "ok" /\ ret.val.kind = "DataFrame")
    => \A j \in 1..Len(ret.val.rows) :
         LET row == ret.val.rows[j]
         IN  \A rk \in DOMAIN row.pcts : row.pcts[rk] = RecomputedPct(row.Equipe, rk, call)

\* C6: the Total and every label count of a team, from aggregate_team_stats,
\* from display_team_stats and from get_skill_stats on the player built by
\* create_team_global_player, is the sum of the members' get_skill_stats values.
C6_CountAdditive ==
    LET keys == CountKeys(call.skill) \cup {K("Total")}
    IN  /\ (call.op = "aggregate_team_stats" /\ ret.kind = "ok")
            => \A k \in keys :
                 Get(ret.val, k) = MemberSum(TeamPlayers(players, call.team), k, call)
        /\ (call.op = "display_team_stats" /\ ret.kind = "ok" /\ Truthy(call.match_filter))
            => \A t \in DOMAIN ret.val.equipe_stats : \A k \in keys :
                 ret.val.equipe_stats[t][k] = MemberSum(TeamPlayers(players, t), k, call)
        /\ (call.op = "create_team_global_player" /\ ret.kind = "ok" /\ call.team \in TeamNames(players))
            => \A k \in keys :
                 Get(ret.val, k) = MemberSum(TeamPlayers(players, call.team), k, call)

\* a team of two players who both have actions in the slice has been aggregated
C6_Witness ==
    /\ call.op = "aggregate_team_stats"
    /\ ret.kind = "ok"
    /\ ret.val[K("Total")] = Num(3)
    /\ Len(TeamPlayers(players, call.team)) = 2
    /\ \A i \in 1..2 :
         get_skill_stats(TeamPlayers(players, call.team)[i], call.skill, call.set_moment,
                         call.match_filter, call.set_filter).val[K("Total")] > 0

-----------------------------------------------------------------------------
(* Claims C7 - C10: FSO, SO and the adjacency tables *)

\* the passes of the call: the slice of skill Set after the moment, match, set
\* and set_type filters
CallPasses ==
    filter_set_df(call.self, call.set_moment, call.match_filter, call.set_filter, call.set_type)

HasEntry(table, idx) == ~IsNone(table) /\ InIndex(idx, table)

\* the attack_type filter of the call accepts the action
OfAttackType(action) == call.attack_type = "Tous" \/ action.attack_code = call.attack_type

\* positions of the passes with both adjacency entries, a Reception before and
\* an Attack after
FsoPasses ==
    {i \in 1..Len(CallPasses) :
        /\ HasEntry(call.self.df_prev, CallPasses[i].idx)
        /\ HasEntry(call.self.df_next, CallPasses[i].idx)
        /\ Loc(call.self.df_prev, CallPasses[i].idx).skill = "Reception"
        /\ Loc(call.self.df_next, CallPasses[i].idx).skill = "Attack"}

\* positions of the passes with a next-row entry that is an Attack
SoPasses ==
    {i \in 1..Len(CallPasses) :
        /\ HasEntry(call.self.df_next, CallPasses[i].idx)
        /\ Loc(call.self.df_next, CallPasses[i].idx).skill = "Attack"}

Kills(passes) ==
    {i \in passes : Loc(call.self.df_next, CallPasses[i].idx).evaluation_code = "#"}

TypedAttacks(passes) ==
    {i \in passes : OfAttackType(Loc(call.self.df_next, CallPasses[i].idx))}

RatePct(successful, total) == IF total = 0 THEN 0 ELSE Round1(successful, total)

\* C7 (amended): total_fso_situations is the number of filtered passes with both
\* adjacency entries, a Reception before and an Attack after, the Attack being of
\* the attack_type asked for when one is given; successful_fso is the number of
\* those whose Attack is '#'; '% FSO' = round(100 * successful / total, 1), 0.0
\* without a situation.  A pass without an adjacency entry is in neither count.
C7_FsoCounts ==
    call.op = "calculate_set_fso"
    => LET situations == TypedAttacks(FsoPasses)
           total      == Cardinality(situations)
           successful == Cardinality(Kills(situations))
       IN  ret = FsoRecord(total, successful, RatePct(successful, total))

\* C7 (as stated): the same with every Attack counted, whatever attack_type is
C7_FsoCountsAnyAttack ==
    call.op = "calculate_set_fso"
    => LET total      == Cardinality(FsoPasses)
           successful == Cardinality(Kills(FsoPasses))
       IN  ret = FsoRecord(total, successful, RatePct(successful, total))

\* a Reception, a pass and a scoring Attack: one situation, won; a second pass
\* or a missing entry may be there beside it
C7_Witness ==
    /\ call.op = "calculate_set_fso"
    /\ ret = FsoRecord(1, 1, Num(100))

\* C8 (amended): total_so_situations is the number of filtered passes with a
\* next-row entry that is an Attack (of the attack_type asked for when one is
\* given), whatever the previous action; successful_so the number of those whose
\* Attack is '#'; '% SO' = round(100 * successful / total, 1), 0.0 without a
\* situation.
C8_SoCounts ==
    call.op = "calculate_set_so"
    => LET situations == TypedAttacks(SoPasses)
           total      == Cardinality(situations)
           successful == Cardinality(Kills(situations))
       IN  ret = SoRecord(total, successful, RatePct(successful, total))

\* C8 (as stated): the same with every Attack counted, whatever attack_type is
C8_SoCountsAnyAttack ==
    call.op = "calculate_set_so"
    => LET total      == Cardinality(SoPasses)
           successful == Cardinality(Kills(SoPasses))
       IN  ret = SoRecord(total, successful, RatePct(successful, total))

\* a pass followed by a lost Attack and not preceded by a Reception is a situation
C8_Witness ==
    /\ call.op = "calculate_set_so"
    /\ ret = SoRecord(1, 0, 0)
    /\ FsoPasses = {}

\* C9: for the same player, tables and filters, calculate_set_fso finds no more
\* situations than calculate_set_so, and no more successful ones.
C9_FsoWithinSo ==
    call.op = "calculate_set_fso"
    => LET so == calculate_set_so(call.self, call.set_moment, call.match_filter,
                                  call.set_filter, call.set_type, call.attack_type)
       IN  /\ ret.total_fso_situations <= so.total_so_situations
           /\ ret.successful_fso <= so.successful_so

\* an FSO situation that is an SO situation too
C9_Witness ==
    /\ call.op = "calculate_set_fso"
    /\ ret.total_fso_situations = 1
    /\ calculate_set_so(call.self, call.set_moment, call.match_filter,
                        call.set_filter, call.set_type, call.attack_type).total_so_situations = 1

\* a filtered pass of the player is followed by an Attack in the loaded table
PassThenAttack ==
    \E i \in 1..Len(CallPasses) : \E j \in 1..Len(all_plays) :
        /\ all_plays[j].idx = CallPasses[i].idx + 1
        /\ all_plays[j].skill = "Attack"

\* C10: a Player of load_data carries its previous-row and next-row tables, so
\* that a setter whose passes are followed by attacks in the loaded table has
\* total_so_situations > 0.
C10_AdjacencyLoaded ==
    (call.op = "players.calculate_set_so" /\ call.attack_type = "Tous" /\ PassThenAttack)
    => /\ ~IsNone(call.self.df_prev)
       /\ ~IsNone(call.self.df_next)
       /\ ret.total_so_situations > 0

-----------------------------------------------------------------------------
(* Claims C11 - C12: the filter stage *)

\* the match filter keeps the match: no filter and an empty one keep every match
KeepsMatch(match_filter, match_id) ==
    CASE match_filter.kind = "None" -> TRUE
      [] match_filter.kind = "list" ->
           match_filter.items = <<>> \/ \E i \in 1..Len(match_filter.items) : match_filter.items[i] = match_id
      [] OTHER -> match_filter.item = match_id

\* the set filter keeps the set: only a filter that is not given keeps every set
KeepsSet(set_filter, set_number) ==
    CASE set_filter.kind = "None" -> TRUE
      [] set_filter.kind = "list" -> \E i \in 1..Len(set_filter.items) : set_filter.items[i] = set_number
      [] OTHER -> set_filter.item = set_number

InBucket(set_moment, home, visiting) ==
    CASE set_moment = "0-10"  -> home <= 10 \/ visiting <= 10
      [] set_moment = "10-20" -> (10 < home /\ home < 20) \/ (10 < visiting /\ visiting < 20)
      [] set_moment = "20+"   -> home >= 20 \/ visiting >= 20
      [] OTHER -> TRUE

\* the action satisfies every constraint of the call q
Wanted(r, q) ==
    /\ r.skill = q.skill
    /\ KeepsMatch(q.match_filter, r.match_id)
    /\ KeepsSet(q.set_filter, r.set_number)
    /\ InBucket(q.set_moment, r.home_team_score, r.visiting_team_score)

\* the rows of df that satisfy the call q, in the order of df
RECURSIVE WantedRows(_, _)
WantedRows(df, q) ==
    IF df = <<>> THEN <<>>
    ELSE (IF Wanted(Head(df), q) THEN <<Head(df)>> ELSE <<>>) \o WantedRows(Tail(df), q)

\* C11: get_action_df returns, in the original order, exactly the player's
\* actions of the requested skill whose match_id is in match_filter (None or
\* empty: no restriction; a scalar: that one match), whose set_number is in
\* set_filter when one is given, and whose scores fall in the moment bucket
\* ('0-10': a score <= 10; '10-20': a score strictly between 10 and 20; '20+': a
\* score >= 20; 'Tout': no restriction).
C11_ActionSlice ==
    (call.op = "get_action_df" /\ InSeq(call.set_moment, SET_MOMENTS))
    => ret = WantedRows(players[call.player].df, call)

\* a slice cut by a scalar match filter, a set filter and a moment, that keeps
\* one action and leaves another of the same skill out
C11_Witness ==
    /\ call.op = "get_action_df"
    /\ call.set_moment = "0-10"
    /\ call.match_filter.kind = "scalar"
    /\ ~IsNone(call.set_filter)
    /\ Len(ret) = 2
    /\ Len(SelectSeq(players[call.player].df, LAMBDA r : r.skill = call.skill)) = 3

\* C12: every action get_action_df returns for the moment 'Tout' is returned
\* for at least one of the moments '0-10', '10-20', '20+' under the same skill
\* and filters (and may be returned for several of them).
C12_BucketCoverage ==
    (call.op = "get_action_df" /\ call.set_moment = "Tout")
    => \A i \in 1..Len(ret) :
         \E m \in {"0-10", "10-20", "20+"} :
           InSeq(ret[i], get_action_df(players[call.player], call.skill, m,
                                       call.match_filter, call.set_filter))

\* an action at 15-9 is returned for 'Tout', for '0-10' and for '10-20'
C12_Witness ==
    /\ call.op = "get_action_df"
    /\ call.set_moment = "Tout"
    /\ \E i \in 1..Len(ret) :
         /\ InSeq(ret[i], get_action_df(players[call.player], call.skill, "0-10",
                                        call.match_filter, call.set_filter))
         /\ InSeq(ret[i], get_action_df(players[call.player], call.skill, "10-20",
                                        call.match_filter, call.set_filter))

-----------------------------------------------------------------------------
(* Claims C13 - C18: unknown skills, short mappings, efficiency, error rate,   *)
(* keys of the record                                                          *)

\* C13: for a skill without entry in SKILL_EVAL_MAPPINGS, get_skill_stats,
\* get_skill_stats_with_filters and get_skill_efficiency raise, whatever the
\* player's table and the filters are.
C13_UnknownSkillRaises ==
    (/\ call.op \in {"get_skill_stats", "get_skill_stats_with_filters", "get_skill_efficiency"}
     /\ call.skill \notin DOMAIN SKILL_EVAL_MAPPINGS)
    => ret.kind = "raise"

\* C14: with a mapping of fewer than 4 symbols the efficiency is 0.0 and nothing
\* is raised: the '% Efficacite' of compute_skill_stats(df, mapping) is 0.0 on
\* every slice, and so is the value of get_skill_efficiency.
C14_ShortMappingZero ==
    /\ (call.op = "compute_skill_stats" /\ Len(call.eval_mapping) < 4)
        => (ret.kind = "ok" /\ ret.val[P("Efficacite")] = 0)
    /\ (/\ call.op = "get_skill_efficiency"
        /\ call.skill \in DOMAIN SKILL_EVAL_MAPPINGS
        /\ Len(SKILL_EVAL_MAPPINGS[call.skill]) < 4)
        => ret = Ok(0)

\* the number of actions of df whose evaluation_code is one of the codes
Having(df, codes) == Cardinality({i \in 1..Len(df) : df[i].evaluation_code \in codes})

FirstTwoCodes(mapping) == {mapping[i][1] : i \in {1, 2}}

LastTwoCodes(mapping) == {mapping[i][1] : i \in {Len(mapping) - 1, Len(mapping)}}

\* C15: get_skill_efficiency returns round(100 * positive / negative, 1) when
\* negative > 0, 100.0 when negative = 0 and positive > 0, and 0.0 when both are
\* 0; positive counts the filtered actions with one of the first two symbols of
\* the skill's mapping, negative those with one of the last two.
C15_EfficiencyRatio ==
    (call.op = "get_skill_efficiency" /\ call.skill \in DOMAIN SKILL_EVAL_MAPPINGS)
    => LET positive == Having(CallSlice, FirstTwoCodes(SKILL_EVAL_MAPPINGS[call.skill]))
           negative == Having(CallSlice, LastTwoCodes(SKILL_EVAL_MAPPINGS[call.skill]))
       IN  ret = Ok(IF negative > 0 THEN Round1(positive, negative)
                    ELSE IF positive > 0 THEN Num(100) ELSE 0)

\* two positive actions and one negative one: 200.0
C15_Witness ==
    /\ call.op = "get_skill_efficiency"
    /\ Len(CallSlice) = 3
    /\ ret = Ok(Num(200))

\* C16: on a non-empty slice, '% Erreur' of compute_skill_stats is
\* round(100 * error_count / Total, 1); error_count counts the actions with the
\* last symbol of the mapping for Serve and Set, with one of its last two symbols
\* for Attack, Reception, Block and Dig.
C16_ErrorRate ==
    (call.op = "compute_skill_stats" /\ call.df # <<>> /\ call.df[1].skill \in Skills)
    => LET last_codes  == {call.eval_mapping[Len(call.eval_mapping)][1]}
           error_codes == IF call.df[1].skill \in {"Serve", "Set"} THEN last_codes
                          ELSE LastTwoCodes(call.eval_mapping)
       IN  ret.val[P("Erreur")] = Round1(Having(call.df, error_codes), Len(call.df))

\* two serves, '-' and '=': only the fault is an error, 50.0
C16_Witness ==
    /\ call.op = "compute_skill_stats"
    /\ Len(call.df) = 2
    /\ call.df[1].skill = "Serve"
    /\ call.eval_mapping = SKILL_EVAL_MAPPINGS["Serve"]
    /\ {call.df[i].evaluation_code : i \in 1..2} = {"-", "="}
    /\ ret.val[P("Erreur")] = Num(50)

\* C17: for Set the record of get_skill_stats and get_skill_stats_with_filters
\* holds '% FSO' and '% SO' under every filter combination, those matching no
\* pass included; for every other skill it holds neither.
C17_SetKeys ==
    (call.op \in {"get_skill_stats", "get_skill_stats_with_filters"} /\ ret.kind = "ok")
    => IF call.skill = "Set"
       THEN {P("FSO"), P("SO")} \subseteq DOMAIN ret.val
       ELSE {P("FSO"), P("SO")} \cap DOMAIN ret.val = {}

\* C18: for a slice without action, the record of get_skill_stats holds each
\* label of the skill's mapping with the value 0.
C18_ZeroLabelCounts ==
    (call.op = "get_skill_stats" /\ ret.kind = "ok" /\ CallSlice = <<>>)
    => \A label \in LabelsOf(SKILL_EVAL_MAPPINGS[call.skill]) :
         K(label) \in DOMAIN ret.val /\ ret.val[K(label)] = 0

-----------------------------------------------------------------------------
(* Claim C19: the attack_type filter of the FSO and SO metrics                 *)

\* positions of the passes of the call whose next action is an Attack with the
\* attack_code asked for
PassesToAttackType ==
    {i \in 1..Len(CallPasses) :
        /\ HasEntry(call.self.df_next, CallPasses[i].idx)
        /\ Loc(call.self.df_next, CallPasses[i].idx).skill = "Attack"
        /\ Loc(call.self.df_next, CallPasses[i].idx).attack_code = call.attack_type}

\* the situation and success counts of a record of either metric
Situations(record) ==
    IF "total_fso_situations" \in DOMAIN record
    THEN <<record.total_fso_situations, record.successful_fso>>
    ELSE <<record.total_so_situations, record.successful_so>>

\* the record of the metric of the call, for the same player and other filters,
\* with attack_type 'Tous'
WithEveryAttack ==
    IF call.op = "calculate_set_fso"
    THEN calculate_set_fso(call.self, call.set_moment, call.match_filter, call.set_filter,
                           call.set_type, "Tous")
    ELSE calculate_set_so(call.self, call.set_moment, call.match_filter, call.set_filter,
                          call.set_type, "Tous")

\* C19: with an attack_type other than 'Tous', calculate_set_fso and
\* calculate_set_so count as situations only passes whose next action is an
\* Attack with that attack_code; their situation and success counts never exceed
\* those obtained with attack_type 'Tous' and the same other filters.
C19_AttackTypeFilter ==
    (call.op \in {"calculate_set_fso", "calculate_set_so"} /\ call.attack_type # "Tous")
    => /\ Situations(ret)[1] <= Cardinality(PassesToAttackType)
       /\ Situations(ret)[1] <= Situations(WithEveryAttack)[1]
       /\ Situations(ret)[2] <= Situations(WithEveryAttack)[2]

\* a pass followed by an Attack of another attack_code: a situation with 'Tous',
\* none with the attack_type asked for
C19_Witness ==
    /\ call.op \in {"calculate_set_fso", "calculate_set_so"}
    /\ call.attack_type # "Tous"
    /\ Situations(ret)[1] = 0
    /\ Situations(WithEveryAttack)[1] = 1
    /\ PassesToAttackType = {}

-----------------------------------------------------------------------------
(* Claim C20: the best player of a skill                                       *)

\* the records get_skill_stats gives for the players of the list of the call
CallStats ==
    List([i \in 1..Len(call.players) |->
            get_skill_stats(call.players[i], call.skill, call.set_moment, call.match_filter,
                            call.set_filter).val])

\* positions of the players with Total >= min_actions
Eligible(stats) ==
    {i \in 1..Len(stats) : Get(stats[i], K("Total")) >= Num(call.min_actions)}

\* positions of the eligible players of maximal '% Efficacite'
Leaders(stats, eligible) ==
    {i \in eligible :
        \A j \in eligible : Get(stats[j], P("Efficacite")) <= Get(stats[i], P("Efficacite"))}

FirstOf(positions) == CHOOSE i \in positions : \A j \in positions : i <= j

IsEntryOf(entry, stats, i) ==
    /\ entry.player = call.players[i]
    /\ entry.efficiency = Get(stats[i], P("Efficacite"))
    /\ entry.total_actions = Get(stats[i], K("Total"))

BestAmongEligible(stats, eligible) ==
    IF eligible = {} THEN ret.val = None
    ELSE IsEntryOf(ret.val, stats, FirstOf(Leaders(stats, eligible)))

LevelBehindFirst(stats) ==
    /\ Eligible(stats) = {1, 2, 3}
    /\ Leaders(stats, {1, 2, 3}) = {2, 3}

\* C20: get_best_players_by_skill returns None when no player has
\* Total >= min_actions; otherwise it returns, among the players with
\* Total >= min_actions and the maximal '% Efficacite', the one that comes first
\* in the list it was given.
C20_BestPlayer ==
    (call.op = "get_best_players_by_skill" /\ call.skill \in DOMAIN SKILL_EVAL_MAPPINGS)
    => /\ ret.kind = "ok"
       /\ BestAmongEligible(CallStats, Eligible(CallStats))

\* three eligible players, the first one behind the two others, who are level:
\* the second of the list is returned
C20_Witness ==
    /\ call.op = "get_best_players_by_skill"
    /\ call.skill \in DOMAIN SKILL_EVAL_MAPPINGS
    /\ call.min_actions = 1
    /\ LevelBehindFirst(CallStats)
    /\ ret.val.player = call.players[2]

-----------------------------------------------------------------------------
(* Claim C21: a special metric whose formula cannot be evaluated               *)

\* the special metrics of the slice of the call whose formula raises (Failing)
\* or does not
MetricFails(metric, sd) ==
    \E i \in 1..Len(metric[2]) : PartRaises(metric[2][i], sd)

FailingNames(metrics, sd) ==
    {metrics[i][1] : i \in {j \in 1..Len(metrics) : MetricFails(metrics[j], sd)}}

\* the record of the call had the failing metrics not been asked for
WithoutFailures(metrics, sd) ==
    SpecialMetrics(BaseStats(call.df, call.eval_mapping),
                   SelectSeq(metrics, LAMBDA mt : ~MetricFails(mt, sd)), 1, sd, Len(call.df))

AbsorbedIn(record, failing, reference) ==
    /\ \A k \in failing : k \in DOMAIN record /\ record[k] = 0
    /\ DOMAIN reference \subseteq DOMAIN record
    /\ \A k \in DOMAIN record \ failing : k \in DOMAIN reference /\ record[k] = reference[k]

FailuresAbsorbed(metrics, sd) ==
    AbsorbedIn(ret.val, FailingNames(metrics, sd), WithoutFailures(metrics, sd))

\* C21: a failure while evaluating one special-metric formula is absorbed:
\* compute_skill_stats does not raise, that metric is 0.0, and every other key of
\* the record has the value it has without the failure.
C21_MetricFailureAbsorbed ==
    (/\ call.op = "compute_skill_stats"
     /\ call.df # <<>>
     /\ call.df[1].skill \in DOMAIN SPECIAL_METRICS)
    => /\ ret.kind = "ok"
       /\ FailuresAbsorbed(SPECIAL_METRICS[call.df[1].skill],
                           symbols_data(call.df, Symbols(call.eval_mapping)))

\* serves counted with a mapping without '/': '% Positif' cannot be evaluated
\* and is 0.0, '% Ace' is there
C21_Witness ==
    /\ call.op = "compute_skill_stats"
    /\ call.df # <<>>
    /\ call.df[1].skill = "Serve"
    /\ call.eval_mapping = ShortMapping
    /\ \E i \in 1..Len(call.df) : call.df[i].evaluation_code = "#"
    /\ ret.val[P("Positif")] = 0
    /\ ret.val[P("Ace")] > 0

-----------------------------------------------------------------------------
(* Claim C22: queries are read-only                                            *)

\* the query of the call, without its rank in the session
Asked(c) == [c EXCEPT !.nth = 0]

-----------------------------------------------------------------------------
(* Claim C23: the attack-type filter of the evolution page                     *)

\* the number of the player's attacks that match the filters of the call and
\* have the attack_code asked for
AttacksOfType ==
    Len(SelectSeq(CallSlice, LAMBDA r : r.attack_code = call.attack_type.item))

\* C23: get_skill_stats_with_attack_filter with skill 'Attack' and an
\* attack_type T returns a record whose Total is the number of the player's
\* Attack actions that match the moment, match and set filters and have
\* attack_code = T.
C23_AttackTypeTotal ==
    (/\ call.op = "get_skill_stats_with_attack_filter"
     /\ call.skill = "Attack"
     /\ Truthy(call.attack_type))
    => (ret.kind = "ok" /\ ret.val[K("Total")] = Num(AttacksOfType))

-----------------------------------------------------------------------------
(* Claim C24: the efficiency numerators as EFFICIENCY_CALCULATION documents    *)
(* them                                                                        *)

\* the description of EFFICIENCY_CALCULATION[skill], read on the counts of the
\* slice: the symbols counted for and the symbols counted against
DocumentedPositive(skill) ==
    CASE skill \in {"Attack", "Block"}  -> {"#"}
      [] skill \in {"Reception", "Dig"} -> {"#", "+"}
      [] skill = "Serve"                -> {"#", "/"}
      [] skill = "Set"                  -> {"#", "+", "!", "-", "/"}

DocumentedNegative(skill) ==
    IF skill \in {"Serve", "Set"} THEN {"="} ELSE {"/", "="}

DocumentedNumerator(df, skill) ==
    Having(df, DocumentedPositive(skill)) - Having(df, DocumentedNegative(skill))

\* C24: on a non-empty slice of a skill, counted with the skill's mapping,
\* '% Efficacite' of compute_skill_stats is round(100 * N / Total, 1) with N as
\* EFFICIENCY_CALCULATION documents it; for Set N is Jouable - Faute, Jouable
\* being the passes that are no fault.
C24_DocumentedEfficiency ==
    (/\ call.op = "compute_skill_stats"
     /\ call.df # <<>>
     /\ call.df[1].skill \in Skills
     /\ call.eval_mapping = SKILL_EVAL_MAPPINGS[call.df[1].skill])
    => ret.val[P("Efficacite")] = Round1(DocumentedNumerator(call.df, call.df[1].skill), Len(call.df))

-----------------------------------------------------------------------------
(* Claim C25: get_skill_stats_with_filters without extra filter                *)

\* C25: with set_type 'Tous' and attack_type 'Tous', get_skill_stats_with_filters
\* returns what get_skill_stats returns for the same skill, set_moment,
\* match_filter and set_filter: the same record or the same error, for every
\* skill, Set included.
C25_SameAsGetSkillStats ==
    (/\ call.op = "get_skill_stats_with_filters"
     /\ call.set_type = "Tous"
     /\ call.attack_type = "Tous")
    => ret = get_skill_stats(call.self, call.skill, call.set_moment, call.match_filter,
                             call.set_filter)

\* a passer with adjacency tables whose pass was followed by a scoring attack
C25_Witness ==
    /\ call.op = "get_skill_stats_with_filters"
    /\ call.set_type = "Tous"
    /\ call.attack_type = "Tous"
    /\ call.skill = "Set"
    /\ ret.kind = "ok"
    /\ ret.val[K("Total")] > 0
    /\ ret.val[P("SO")] = Num(100)

-----------------------------------------------------------------------------
(* Claim C26: the percentage columns of the global table                       *)

FirstEvaluationLabel(skill) == P(SKILL_EVAL_MAPPINGS[skill][1][2])

LastEvaluationLabel(skill) == P(SKILL_EVAL_MAPPINGS[skill][Len(SKILL_EVAL_MAPPINGS[skill])][2])

\* the cell of a percentage column: the percentage from MIN_ACTIONS actions on
ShownFrom(skill_stats, label) ==
    IF Get(skill_stats, K("Total")) >= Num(MIN_ACTIONS) THEN Value(skill_stats[label]) ELSE NaN

ColumnsAsClaimed(cols, skill_stats, skill) ==
    /\ cols.first_label = FirstEvaluationLabel(skill)
    /\ cols.first = ShownFrom(skill_stats, FirstEvaluationLabel(skill))
    /\ cols.last_label = LastEvaluationLabel(skill)
    /\ cols.last = ShownFrom(skill_stats, LastEvaluationLabel(skill))

RowsAsClaimed(rows, row_players) ==
    \A i \in 1..Len(rows) : \A skill \in DOMAIN SKILL_EVAL_MAPPINGS :
        ColumnsAsClaimed(rows[i].cols[skill],
                         get_skill_stats(row_players[i], skill, "Tout", None, None).val, skill)

\* C26: in each row of the table of build_global_stats_df and for each skill,
\* the first percentage column holds the percentage of the first evaluation
\* label of the skill's mapping and the second one that of the last evaluation
\* label; both are NaN when the row has fewer than MIN_ACTIONS actions of the
\* skill.
C26_GlobalColumns ==
    (call.op = "build_global_stats_df" /\ ret.kind = "ok")
    => RowsAsClaimed(ret.val, RowPlayers(players, call.fa_teams))

-----------------------------------------------------------------------------
(* Claim C27: a set_moment that is no bucket of SET_MOMENTS                    *)

\* the answer to the call had 'Tout' been asked
AnswerForTout ==
    IF call.op = "get_action_df"
    THEN get_action_df(players[call.player], call.skill, "Tout", call.match_filter,
                       call.set_filter)
    ELSE get_skill_stats(players[call.player], call.skill, "Tout", call.match_filter,
                         call.set_filter)

-----------------------------------------------------------------------------
(* Claim C28: playable passes and faults                                       *)

\* the record compute_skill_stats gives for the passes of the call
PassRecord == compute_skill_stats(CallSlice, SKILL_EVAL_MAPPINGS["Set"])

PlayableAndFaults(record, row, df) ==
    /\ record[P("Faute")] = record[P("Erreur")]
    /\ record[P("Erreur")] = Round1(Having(df, {"="}), Len(df))
    /\ record[P("Jouable")] = Round1(Len(df) - Having(df, {"="}), Len(df))
    /\ row.kind = "row"
    /\ row.row[K("Jouable")] + row.row[K("Faute")] = row.row[K("Total")]
    /\ row.row[P("Jouable")] = record[P("Jouable")]
    /\ row.row[P("Faute")] = record[P("Faute")]

\* C28: for a non-empty slice of passes whose evaluation codes are all symbols
\* of the mapping, '% Faute' equals '% Erreur', both are
\* round(100 * count('=') / Total, 1), the passes behind '% Jouable' and the
\* faults add up to Total, and calculate_stats_row gives the same '% Jouable'
\* and '% Faute'.
C28_PlayableOrFault ==
    (/\ call.op = "calculate_stats_row"
     /\ CallSlice # <<>>
     /\ CodesInMapping(CallSlice, SKILL_EVAL_MAPPINGS["Set"]))
    => PlayableAndFaults(PassRecord, ret.val, CallSlice)

\* three passes, one of them '/' and one a fault
C28_Witness ==
    /\ call.op = "calculate_stats_row"
    /\ Len(CallSlice) = 3
    /\ CodesInMapping(CallSlice, SKILL_EVAL_MAPPINGS["Set"])
    /\ Having(CallSlice, {"/"}) = 1
    /\ Having(CallSlice, {"="}) = 1
    /\ ret.val.row[P("Jouable")] = Round1(2, 3)

-----------------------------------------------------------------------------
(* Claim C29: the ranges of the values of a record                             *)

InRange(v, low, high) == low <= v /\ v <= high

ValuesInRange(record, labels) ==
    /\ record[K("Total")] >= 0
    /\ \A label \in labels :
         K(label) \in DOMAIN record => InRange(record[K(label)], 0, record[K("Total")])
    /\ \A k \in DOMAIN record :
         k[1] = 1 => IF k = P("Efficacite") THEN InRange(record[k], -Num(100), Num(100))
                     ELSE InRange(record[k], 0, Num(100))

\* C29: in every record of get_skill_stats and get_skill_stats_with_filters,
\* Total >= 0, every label count is between 0 and Total, every percentage
\* ('% label', '% Erreur', the special metrics, '% FSO', '% SO') is between 0
\* and 100, and '% Efficacite' is between -100 and 100.
C29_Ranges ==
    (/\ call.op \in {"get_skill_stats", "get_skill_stats_with_filters"}
     /\ ret.kind = "ok")
    => ValuesInRange(ret.val, LabelsOf(SKILL_EVAL_MAPPINGS[call.skill]))

\* attacks all lost: '% Efficacite' at its lower end, '% Erreur' at its upper end
C29_Witness ==
    /\ call.op = "get_skill_stats_with_filters"
    /\ ret.kind = "ok"
    /\ ret.val[K("Total")] > 0
    /\ ret.val[P("Efficacite")] = -Num(100)
    /\ ret.val[P("Erreur")] = Num(100)

-----------------------------------------------------------------------------
(* Claim C30: the selection of create_selector                                 *)

\* the first three items, or all of them when there are three or fewer
FirstThree(items) == IF Len(items) > 3 THEN SubSeq(items, 1, 3) ELSE items

\* C30: on first use of a session key the stored selection is default_selection
\* whenever the caller passes one, whatever the number of items, and the first
\* three items (all of them when there are three or fewer) when none is passed;
\* after every call the stored selection holds items only.
C30_SelectorDefault ==
    call.op = "create_selector"
    => /\ call.first_use
          => session_state.selection.items =
                IF IsNone(call.default_selection) THEN FirstThree(call.items)
                ELSE call.default_selection.items
       /\ \A i \in 1..Len(session_state.selection.items) :
             InSeq(session_state.selection.items[i], call.items)

=============================================================================
